---- MODULE Spec2Model ----
(***************************************************************************)
(* A model of yamc (yet another metric collector).                         *)
(*                                                                         *)
(*   - the provider performance governor, PerformanceProvider.wrapper      *)
(*     (src/yamc/providers/performance.py);                                *)
(*   - the writer pipeline, Writer.write / Writer.worker / Backlog         *)
(*     (src/yamc/writers/writer.py).                                       *)
(*                                                                         *)
(* Each subsystem has its own specification (SpecGov, SpecWriter, ...);    *)
(* the variables of the other subsystems stay at their initial value.      *)
(***************************************************************************)
EXTENDS Integers, Sequences, FiniteSets, TLC

\* ------------------------------------------------------------------ bounds

\* the PerfKeys (md5 fingerprints) the governed calls are made with
Keys == {"k1"}
\* largest configured performance.pause.duration_cycles
MaxDuration == 2
\* largest configured performance.pause.max_waiting_cycles
MaxWaiting == 5
\* the configured performance.pause.running_time (abstract seconds)
MaxRunningTime == 1
\* largest number of rows a governed call returns
MaxRecords == 1
\* number of performance records published in a run
MaxCalls == 18
\* recorded length of a streak of consecutive faulty executions
MaxStreak == 5
\* number of envelopes accepted in a run
MaxEnvelopes == 2
\* largest number of records of one write() call
MaxData == 2
\* largest configured batch_size
MaxBatch == 2
\* number of invocations of wrapper made by concurrent threads in a run
MaxThreadCalls == 5
\* number of Topic.update calls in a run
MaxUpdates == 3
\* number of Topic.subscribe calls in a run
MaxSubscribers == 2
\* number of topics of an event source
MaxTopics == 2
\* number of patterns of a select call
MaxPatterns == 2
MaxFires == 2
MaxStarts == 2
MaxStateUpdates == 2

\* blocks in the $def list of a template, and calls of process_conditional_dict
MaxBlocks == 2

MaxEvaluations == 3

\* calls of Writer.write with a template, and records of a call
MaxWriteCalls == 1

MaxWriteRecords == 2

\* calls of HttpProvider.update, and seconds that pass between calls
MaxHttpCalls == 2

MaxClock == 2

\* updates published to the topic of the event collectors
MaxEvents == 2

\* health probes of the writer, and seconds on its clock
MaxProbes == 3

MaxHealthClock == 4

\* Python's None
None == "None"

\* the component id of the governed provider
component_id == "p1"

VARIABLES
    \* ---- governor
    performance_pause,  \* PerformanceProvider.performance_pause (configuration)
    TEST_MODE,          \* yamc.config.TEST_MODE
    perf_objects,       \* PerformanceProvider.perf_objects: PerfKey -> PerfState
    perf_topic,         \* the topic yamc/performance/providers/<component_id>
    ret,                \* how the last invocation of wrapper ended
    streak,             \* pauses set by the current run of faulty executions
    pausing,            \* the pause last set and the invocations skipped since
    \* ---- writer
    writer_config,      \* Writer.__init__: disable_backlog, batch_size, write_empty;
                        \* base_config.test; the writer definition of the
                        \* collectors; what healthcheck() and do_write() of
                        \* the backend can do
    healthy,            \* Writer._is_healthy
    probe_due,          \* time.time() - last_healthcheck > healthcheck_interval
    queue,              \* Writer.queue
    all_files,          \* Backlog.all_files
    disk,               \* the files of the backlog directory and their items
    next_file,          \* the backlog file names used so far (randomString)
    exit_event,         \* yamc.config.exit_event
    wpc,                \* where the writer's worker thread is
    batch,              \* the worker's batch
    batch_files,        \* Backlog.process: the files of the batch
    kept,               \* Backlog.remove: the new list before it is assigned
    cpc,                \* where each collector thread is
    data_out,           \* Writer.write: the envelopes of each collector's call
    next_env,           \* the envelopes accepted so far
    written,            \* the envelopes of the successful do_write calls, in order
    dropped,            \* the envelopes that were given up, and why
    empty,              \* the records whose conditional template result is empty
    wrote,              \* the do_write call the worker has just made: what it
                        \* wrote (queue or backlog batch) and how it ended
    putting,            \* Backlog.put: the file each thread has written and not
                        \* yet appended to all_files (0: none)
    \* ---- governor called from several collector threads
    tpc,                \* where each thread is in wrapper, and with which PerfKey
    \* ---- topic
    topic,              \* the Topic: owner, time, data, history, subscribers, lock
    sub_queues,         \* the subscribers' queues
    ppc,                \* where each publishing thread is in Topic.update
    published,          \* the time and data of each update, in the order of history
    subscribed_at,      \* the length of history when a queue was first subscribed
                        \* (-1: not subscribed)
    \* ---- event source
    topics,             \* EventSource.topics: the topic ids, in insertion order
    selected,           \* the last select call: its patterns and what it returned
    \* ---- cron collectors
    crpc,               \* where each cron collector's worker thread is
    due,                \* the time of the scheduled fire a worker waits for has come
    cron,               \* each worker's record: the scheduled fires that came, the
                        \* jobs run, whether is_set() has returned True, how the
                        \* last wait ended and the jobs run before it
    \* ---- supervisor and worker components
    scope,              \* Config.scope: the writers, providers and collectors of the
                        \* configuration, in the order of the configuration file
    spc,                \* where run() is: the loop it is in and the component it is at
    thread,             \* the worker threads each component has started, oldest first;
                        \* WorkerComponent.thread is the last one
    subscriptions,      \* Topic.subscribers of the topic the event collectors listen to:
                        \* the collectors whose queue was appended
    run_log,            \* the components in the order run() started, joined and
                        \* destroyed them
    \* ---- state object
    state_data,         \* State.data: the stored record
    timers,             \* State.timers: the Timer object of each name that has one
    timer_objs,         \* the Timer objects created so far: the name and value each was
                        \* created for, the update call that created it, whether it is
                        \* pending, cancelled, fired or failed, and the callback rounds
                        \* it made
    cells,              \* the variables name and v of each update call, as the lambdas
                        \* of its timers find them when they run
    callback_log,       \* the last operation on the State, what each data callback
                        \* received in it and the stored record it could see
    \* ---- conditional template (writers/writer.py, process_conditional_dict)
    template,           \* the conditional dict d of process_conditional_dict, with the
                        \* __last_if_eval entries and evaluated values the calls leave in it
    eval_log,           \* history: one entry per call of process_conditional_dict
    as_written,         \* history: the template as the configuration gave it
    write_empty,        \* Writer.write_empty of the writer that owns the template
    records_queue,      \* the outputs Writer.write has put on self.queue
    records_backlog,    \* the lists Writer.write has given to backlog.put
    write_call,         \* history: the last call of Writer.write with the template
    write_calls,        \* history: the calls of Writer.write with the template
    \* ---- HTTP provider (providers/provider.py, HttpProvider)
    http_config,        \* HttpProvider: whether init_url is set, init_max_age and max_age
    now,                \* time.time(), in seconds
    init_time,          \* self.init_time: [set |-> FALSE] is None
    _updated_time,      \* self._updated_time: [set |-> FALSE] is None
    http_data,          \* self.data: None or the content of a response
    num_retries,        \* num_retries of the update call that holds the lock
    hpc,                \* where that call is: "idle" (no call), "get" (line 111) or
                        \* "sleep" (line 124)
    http_call,          \* history: the last update call, its GET responses and its result
    http_calls,         \* history: number of update calls
    \* ---- event collector (collectors/collector.py, EventCollector)
    event_writers,      \* the writers configured for the event collectors (self.writers)
    epc,                \* where each event collector's worker thread is
    events,             \* the list events of each worker
    taken,              \* history: the envelopes each worker took from its queue
    received,           \* history: the records Writer.write accepted from each collector
    \* ---- health of the writer (writers/writer.py, Writer.is_healthy)
    healthcheck_interval,\* Writer.healthcheck_interval
    clock,              \* time.time() as the writer's threads read it
    last_healthcheck,   \* Writer.last_healthcheck
    _is_healthy,        \* Writer._is_healthy, as the threads of is_healthy see it
    hpos,               \* where each thread is in is_healthy, and the probe it makes
    may_write,          \* the worker's last is_healthy() returned True (line 183 or 213)
    probes,             \* history: the probes, with the time stamped at line 56
    marked,             \* history: the number of probes made when a failed do_write
                        \* last marked the writer unhealthy (-1: not marked)
    do_write_calls      \* history: the values self._is_healthy had when the worker
                        \* called do_write

govVars == <<performance_pause, TEST_MODE, perf_objects, perf_topic, ret, streak,
             pausing>>

writerVars == <<writer_config, healthy, probe_due, queue, all_files, disk, next_file,
               exit_event, wpc, batch, batch_files, kept, cpc, data_out, next_env,
               written, dropped, empty, wrote, putting>>

threadVars == <<tpc>>

topicVars == <<topic, sub_queues, ppc, published, subscribed_at>>

sourceVars == <<topics, selected>>

cronVars == <<crpc, due, cron>>

runVars == <<scope, spc, thread, subscriptions, run_log>>

stateVars == <<state_data, timers, timer_objs, cells, callback_log>>

templateVars == <<template, eval_log, as_written, write_empty, records_queue,
                  records_backlog, write_call, write_calls>>

httpVars == <<http_config, now, init_time, _updated_time, http_data, num_retries, hpc, http_call, http_calls>>

eventVars == <<event_writers, epc, events, taken, received>>

healthVars == <<healthcheck_interval, clock, last_healthcheck, _is_healthy, hpos, may_write, probes, marked,
                do_write_calls>>

vars == <<govVars, writerVars, threadVars, topicVars, sourceVars, cronVars, runVars,
           stateVars, templateVars, httpVars, eventVars, healthVars>>

\* what the governor's steps leave alone, and what the writer's steps leave alone
notGov == <<writerVars, threadVars, topicVars, sourceVars, cronVars, runVars,
             stateVars, templateVars, httpVars, eventVars, healthVars>>
notWriter == <<govVars, threadVars, topicVars, sourceVars, cronVars, runVars,
                stateVars, templateVars, httpVars, eventVars, healthVars>>
notTopic == <<govVars, writerVars, threadVars, sourceVars, cronVars, runVars,
               stateVars, templateVars, httpVars, eventVars, healthVars>>
notSource == <<govVars, writerVars, threadVars, topicVars, cronVars, runVars,
                stateVars, templateVars, httpVars, eventVars, healthVars>>

\* the items of a sequence
Range(seq) == {seq[i] : i \in 1..Len(seq)}

\* ---------------------------------------------------------------- governor

\* get_perf_info: the PerfState created on the first call with a PerfKey
NewPerfInfo ==
    [last_running_time |-> 0, cycles_to_wait |-> 0,
     records |-> 0, last_error |-> None, cycles_to_wait_int |-> 0,
     reason_to_wait |-> 0]

get_perf_info(k) ==
    IF k \in DOMAIN perf_objects THEN perf_objects[k] ELSE NewPerfInfo

\* wrapper, lines 119-120 (started_time, a reading of the wall clock that no
\* decision of the governor depends on, is left out of the PerfState)
Begin(p) == [p EXCEPT !.last_error = None]

SkippedKeepsRecords(p) ==
    [p EXCEPT !.cycles_to_wait = @ - 1, !.last_running_time = 0]

SkippedKeepsPause(p) ==
    [p EXCEPT !.last_running_time = 0, !.records = 0]

\* wrapper, lines 138-140: a pausing invocation
Skipped(p) ==
    [p EXCEPT !.cycles_to_wait = @ - 1, !.last_running_time = 0, !.records = 0]

\* what the wrapped function returns: None or a list of rows
Results == [isNone : {TRUE}, rows : {0}] \cup [isNone : {FALSE}, rows : 0..MaxRecords]

\* wrapper, lines 146-148: the wrapped call returned
Returned(p, elapsed, result) ==
    [p EXCEPT !.last_running_time = elapsed,
              !.records = IF result.isNone THEN 0 ELSE result.rows,
              !.last_error = None]

\* an OperationalError: its text and the text of its original exception (or None)
OperationalErrors == [text : {"failed"}, original_exception : {None, "timeout"}]

\* wrapper, lines 153-155: the text recorded for an OperationalError
ErrorText(e) ==
    IF e.original_exception # None THEN e.original_exception ELSE e.text

\* wrapper, lines 153-158: the wrapped call raised OperationalError
Failed(p, e) ==
    [p EXCEPT !.last_running_time = 0, !.records = 0, !.last_error = ErrorText(e)]

\* wrapper, line 161
IsFaulty(p) ==
    p.last_error # None \/ p.last_running_time > performance_pause.running_time

GrownUncapped(n) ==
    IF performance_pause.exponential_backoff THEN n * 2 ELSE n + 1

\* wrapper, lines 163-168: the growth of the retained counter
Grown(n) ==
    LET g == IF performance_pause.exponential_backoff THEN n * 2 ELSE n + 1
    IN  IF g > performance_pause.max_waiting_cycles
        THEN performance_pause.max_waiting_cycles ELSE g

\* wrapper, lines 162-172: the pause of a faulty execution
Paused(p) ==
    IF p.cycles_to_wait_int > 0
    THEN [p EXCEPT !.cycles_to_wait_int = Grown(@),
                   !.cycles_to_wait = Grown(p.cycles_to_wait_int)]
    ELSE [p EXCEPT !.cycles_to_wait = performance_pause.duration_cycles,
                   !.cycles_to_wait_int = performance_pause.duration_cycles]

ReasonAlwaysSlow(p) == 2

\* wrapper, lines 173-184
Reason(p) == IF p.last_error # None THEN 1 ELSE 2

EvaluatedKeepsCounter(p) ==
    IF IsFaulty(p)
    THEN [Paused(p) EXCEPT !.reason_to_wait = Reason(p)]
    ELSE [p EXCEPT !.cycles_to_wait = 0, !.reason_to_wait = 0]

EvaluatedKeepsReason(p) ==
    IF IsFaulty(p)
    THEN [Paused(p) EXCEPT !.reason_to_wait = Reason(p)]
    ELSE [p EXCEPT !.cycles_to_wait = 0, !.cycles_to_wait_int = 0]

\* wrapper, lines 160-190: eval the result
Evaluated(p) ==
    IF IsFaulty(p)
    THEN [Paused(p) EXCEPT !.reason_to_wait = Reason(p)]
    ELSE [p EXCEPT !.cycles_to_wait = 0, !.cycles_to_wait_int = 0,
                   !.reason_to_wait = 0]

PerfRecordOfCounter(p) ==
    [records |-> p.records,
     running_time |-> p.last_running_time,
     wait_cycles |-> p.cycles_to_wait_int,
     reason_to_wait |-> p.reason_to_wait,
     is_error |-> IF p.last_error # None THEN "True"
                  ELSE IF p.reason_to_wait = 0 THEN "False" ELSE "None",
     error |-> IF p.last_error # None /\ p.last_error # "" THEN p.last_error ELSE "-"]

\* update_perf: the record published for a PerfState
PerfRecord(p) ==
    [records |-> p.records,
     running_time |-> p.last_running_time,
     wait_cycles |-> p.cycles_to_wait,
     reason_to_wait |-> p.reason_to_wait,
     is_error |-> IF p.last_error # None THEN "True"
                  ELSE IF p.reason_to_wait = 0 THEN "False" ELSE "None",
     error |-> IF p.last_error # None /\ p.last_error # "" THEN p.last_error ELSE "-"]

\* Topic.__init__: no data yet
NoRecord ==
    [records |-> 0, running_time |-> 0, wait_cycles |-> 0, reason_to_wait |-> 0,
     is_error |-> None, error |-> None]

\* update_perf, Topic.update on the performance topic: data is the last record
\* and the history grows by it (the model keeps the length of the history)
update_perf(p) ==
    perf_topic' = [perf_topic EXCEPT !.data = PerfRecord(p), !.history = @ + 1]

\* wrapper, line 123: the PerfKey is pausing
IsWaiting(p) == p.cycles_to_wait > 0

ReraisesNever == FALSE

\* wrapper, line 151: an OperationalError is re-raised
Reraises == TEST_MODE

\* the streak of pauses set by consecutive faulty executions
Streak(k, p) ==
    IF ~IsFaulty(p) THEN <<>>
    ELSE IF Len(streak[k]) < MaxStreak THEN Append(streak[k], p.cycles_to_wait)
    ELSE streak[k]

\* the pause set by the last evaluated execution and the invocations skipped since
Pausing(p) == [n |-> IF IsFaulty(p) THEN p.cycles_to_wait ELSE 0, skipped |-> 0]

\* perf_objects.setdefault / the in-place update of the Map entry
Store(k, p) ==
    perf_objects' = [x \in DOMAIN perf_objects \cup {k} |->
                        IF x = k THEN p ELSE perf_objects[x]]

NoResult == [isNone |-> TRUE, rows |-> 0]
NoError == [text |-> None, original_exception |-> None]

\* how an invocation ended: the outcome of the wrapped call, what the caller got,
\* and the pause and growth counter the invocation found
Ret(k, outcome, raised, result, e) ==
    [key |-> k, outcome |-> outcome, raised |-> raised, result |-> result,
     error |-> e,
     waiting |-> get_perf_info(k).cycles_to_wait,
     counter |-> get_perf_info(k).cycles_to_wait_int]

\* wrapper while the PerfKey is pausing (lines 123-140, 192-193)
InvokeSkipped(k) ==
    /\ perf_topic.history < MaxCalls
    /\ IsWaiting(Begin(get_perf_info(k)))
    /\ LET p == Skipped(Begin(get_perf_info(k))) IN
        /\ Store(k, p)
        /\ update_perf(p)
    /\ ret' = Ret(k, "skipped", FALSE, NoResult, NoError)
    /\ pausing' = [pausing EXCEPT ![k].skipped = @ + 1]
    /\ UNCHANGED <<performance_pause, TEST_MODE, streak>>
    /\ UNCHANGED notGov

\* wrapper when the wrapped call returns (lines 143-148, 160-193)
InvokeReturned(k) ==
    /\ perf_topic.history < MaxCalls
    /\ ~IsWaiting(Begin(get_perf_info(k)))
    /\ \E elapsed \in 0..(MaxRunningTime + 1), result \in Results :
        LET p == Evaluated(Returned(Begin(get_perf_info(k)), elapsed, result)) IN
        /\ Store(k, p)
        /\ update_perf(p)
        /\ streak' = [streak EXCEPT ![k] = Streak(k, p)]
        /\ pausing' = [pausing EXCEPT ![k] = Pausing(p)]
        /\ ret' = Ret(k, "returned", FALSE, result, NoError)
    /\ UNCHANGED <<performance_pause, TEST_MODE>>
    /\ UNCHANGED notGov

\* wrapper when the wrapped call raises OperationalError and the governor
\* swallows it (lines 149-150, 153-193)
InvokeFailed(k) ==
    /\ perf_topic.history < MaxCalls
    /\ ~IsWaiting(Begin(get_perf_info(k)))
    /\ ~Reraises
    /\ \E e \in OperationalErrors :
        LET p == Evaluated(Failed(Begin(get_perf_info(k)), e)) IN
        /\ Store(k, p)
        /\ update_perf(p)
        /\ streak' = [streak EXCEPT ![k] = Streak(k, p)]
        /\ pausing' = [pausing EXCEPT ![k] = Pausing(p)]
        /\ ret' = Ret(k, "OperationalError", FALSE, NoResult, e)
    /\ UNCHANGED <<performance_pause, TEST_MODE>>
    /\ UNCHANGED notGov

\* wrapper when the wrapped call raises OperationalError and the governor
\* re-raises it (lines 149-152)
InvokeReraised(k) ==
    /\ perf_topic.history < MaxCalls
    /\ ~IsWaiting(Begin(get_perf_info(k)))
    /\ Reraises
    /\ \E e \in OperationalErrors :
        /\ Store(k, Begin(get_perf_info(k)))
        /\ ret' = Ret(k, "OperationalError", TRUE, NoResult, e)
    /\ UNCHANGED <<performance_pause, TEST_MODE, perf_topic, streak, pausing>>
    /\ UNCHANGED notGov

\* wrapper when the wrapped call raises any other exception (line 145): nothing
\* catches it
InvokeRaised(k) ==
    /\ perf_topic.history < MaxCalls
    /\ ~IsWaiting(Begin(get_perf_info(k)))
    /\ Store(k, Begin(get_perf_info(k)))
    /\ ret' = Ret(k, "Exception", TRUE, NoResult, NoError)
    /\ UNCHANGED <<performance_pause, TEST_MODE, perf_topic, streak, pausing>>
    /\ UNCHANGED notGov

GovInitial(pause, test_mode) ==
    /\ performance_pause = pause
    /\ TEST_MODE = test_mode
    /\ perf_objects = << >>
    /\ perf_topic = [topic_id |-> <<"yamc/performance/providers", component_id>>,
                     data |-> NoRecord, history |-> 0]
    /\ ret = [key |-> None, outcome |-> None, raised |-> FALSE, result |-> NoResult,
              error |-> NoError, waiting |-> 0, counter |-> 0]
    /\ streak = [k \in Keys |-> <<>>]
    /\ pausing = [k \in Keys |-> [n |-> 0, skipped |-> 0]]

PauseConfigs ==
    [running_time : {MaxRunningTime},
     duration_cycles : 0..MaxDuration,
     exponential_backoff : BOOLEAN,
     max_waiting_cycles : 0..MaxWaiting]

\* PerformanceProvider.__init__ defaults
DefaultPause ==
    [running_time |-> MaxRunningTime, duration_cycles |-> 1,
     exponential_backoff |-> FALSE, max_waiting_cycles |-> MaxWaiting]

NextGov ==
    \E k \in Keys :
        \/ InvokeSkipped(k)
        \/ InvokeReturned(k)
        \/ InvokeFailed(k)
        \/ InvokeReraised(k)
        \/ InvokeRaised(k)

\* ------------------------------------- governor, several collector threads

\* the collector threads that call the governed provider
Threads == {"t1", "t2"}

\* the invocations begun and not yet ended, and the calls left in the run
InWrapper == {t \in Threads : tpc[t].at # "idle"}
CallsLeft == perf_topic.history + Cardinality(InWrapper) < MaxThreadCalls

\* the governor's steps leave the sequential history variables alone
notThreads == <<performance_pause, TEST_MODE, ret, streak, pausing, writerVars,
                topicVars, sourceVars, cronVars, runVars, stateVars, templateVars,
                 httpVars, eventVars, healthVars>>

\* wrapper, lines 118-123: the thread gets the PerfState, clears last_error and
\* tests cycles_to_wait (wrapper takes no lock)
ThreadBegin(t, k) ==
    /\ tpc[t].at = "idle"
    /\ CallsLeft
    /\ Store(k, Begin(get_perf_info(k)))
    /\ tpc' = [tpc EXCEPT ![t] = [at |-> IF IsWaiting(Begin(get_perf_info(k)))
                                         THEN "skip" ELSE "call",
                                  key |-> k]]
    /\ UNCHANGED perf_topic
    /\ UNCHANGED notThreads

\* wrapper, lines 138-140 and 192: the pausing branch
ThreadSkip(t) ==
    /\ tpc[t].at = "skip"
    /\ LET p == Skipped(perf_objects[tpc[t].key]) IN
        /\ Store(tpc[t].key, p)
        /\ update_perf(p)
    /\ tpc' = [tpc EXCEPT ![t].at = "idle"]
    /\ UNCHANGED notThreads

\* wrapper, lines 145-148 and 160-192: the wrapped call returns
ThreadReturned(t) ==
    /\ tpc[t].at = "call"
    /\ \E elapsed \in 0..(MaxRunningTime + 1), result \in Results :
        LET p == Evaluated(Returned(perf_objects[tpc[t].key], elapsed, result)) IN
        /\ Store(tpc[t].key, p)
        /\ update_perf(p)
    /\ tpc' = [tpc EXCEPT ![t].at = "idle"]
    /\ UNCHANGED notThreads

\* wrapper, lines 149-192: the wrapped call raises OperationalError and the
\* governor swallows it
ThreadFailed(t) ==
    /\ tpc[t].at = "call"
    /\ ~Reraises
    /\ \E e \in OperationalErrors :
        LET p == Evaluated(Failed(perf_objects[tpc[t].key], e)) IN
        /\ Store(tpc[t].key, p)
        /\ update_perf(p)
    /\ tpc' = [tpc EXCEPT ![t].at = "idle"]
    /\ UNCHANGED notThreads

\* wrapper, lines 145 and 151-152: an exception leaves the wrapper
ThreadRaised(t) ==
    /\ tpc[t].at = "call"
    /\ tpc' = [tpc EXCEPT ![t].at = "idle"]
    /\ UNCHANGED <<perf_objects, perf_topic>>
    /\ UNCHANGED notThreads

ThreadsInitial == tpc = [t \in Threads |-> [at |-> "idle", key |-> None]]

NextGovThreads ==
    \E t \in Threads :
        \/ \E k \in Keys : ThreadBegin(t, k)
        \/ ThreadSkip(t)
        \/ ThreadReturned(t)
        \/ ThreadFailed(t)
        \/ ThreadRaised(t)

\* ------------------------------------------------------------------- topic

\* the threads that publish to the topic, the subscribers' queues, the records
Publishers == {"u1", "u2"}
Queues == {"q1", "q2"}
Records == {"x1", "x2"}

\* the classes of the event source that owns the topic
Owners == {"EventSource", "EventProvider"}

\* Topic.as_dict: topic_id, time and the record, read from the topic
as_dict == [topic_id |-> topic.topic_id, time |-> topic.time, data |-> topic.data]

\* event_source.on_topic_update(topic=self), line 37: EventSource's does nothing
\* (lines 96-97); EventProvider's calls self.update(topic=topic) (line 112), and
\* update is declared update(self, *kwargs) (line 114): it takes no keyword
\* argument, so the call raises TypeError
on_topic_update_raises == topic.owner = "EventProvider"

\* Topic.subscribe, line 49 (takes no lock)
Subscribe(q) ==
    /\ Len(topic.subscribers) < MaxSubscribers
    /\ topic' = [topic EXCEPT !.subscribers = Append(@, q)]
    /\ subscribed_at' = [subscribed_at EXCEPT
                            ![q] = IF @ = -1 THEN Len(topic.history) ELSE @]
    /\ UNCHANGED <<sub_queues, ppc, published>>
    /\ UNCHANGED notTopic

\* a thread calls Topic.update(d)
UpdateCall(u, d) ==
    /\ ppc[u].at = "idle"
    /\ Len(topic.history) + Cardinality({v \in Publishers : ppc[v].at \in {"lock", "set"}})
          < MaxUpdates
    /\ ppc' = [ppc EXCEPT ![u] = [at |-> "lock", data |-> d, n |-> 0, i |-> 0]]
    /\ UNCHANGED <<topic, sub_queues, published, subscribed_at>>
    /\ UNCHANGED notTopic

UpdateEntersUnlocked(u) ==
    /\ ppc[u].at = "lock"
    /\ topic' = [topic EXCEPT !.lock = u]
    /\ ppc' = [ppc EXCEPT ![u].at = "set"]
    /\ UNCHANGED <<sub_queues, published, subscribed_at>>
    /\ UNCHANGED notTopic

\* Topic.update, line 33: with self.lock
UpdateEnters(u) ==
    /\ ppc[u].at = "lock"
    /\ topic.lock = None
    /\ topic' = [topic EXCEPT !.lock = u]
    /\ ppc' = [ppc EXCEPT ![u].at = "set"]
    /\ UNCHANGED <<sub_queues, published, subscribed_at>>
    /\ UNCHANGED notTopic

\* Topic.update, lines 34-36: time, data, history
UpdateSets(u) ==
    /\ ppc[u].at = "set"
    /\ topic' = [topic EXCEPT !.time = topic.clock, !.clock = @ + 1,
                              !.data = ppc[u].data,
                              !.history = Append(@, ppc[u].data)]
    /\ published' = Append(published, [time |-> topic.clock, data |-> ppc[u].data])
    /\ ppc' = [ppc EXCEPT ![u].at = "notify", ![u].n = Len(published) + 1]
    /\ UNCHANGED <<sub_queues, subscribed_at>>
    /\ UNCHANGED notTopic

\* Topic.update, line 37: on_topic_update; an exception leaves update and the
\* with statement releases the lock
UpdateNotifies(u) ==
    /\ ppc[u].at = "notify"
    /\ IF on_topic_update_raises
       THEN /\ ppc' = [ppc EXCEPT ![u].at = "idle"]
            /\ topic' = [topic EXCEPT !.lock = IF @ = u THEN None ELSE @]
       ELSE /\ ppc' = [ppc EXCEPT ![u].at = "put", ![u].i = 1]
            /\ UNCHANGED topic
    /\ UNCHANGED <<sub_queues, published, subscribed_at>>
    /\ UNCHANGED notTopic

\* Topic.update, lines 38-39: one queue.put(self.as_dict()) of the loop, or the
\* end of the loop and of the with statement
UpdatePuts(u) ==
    /\ ppc[u].at = "put"
    /\ IF ppc[u].i <= Len(topic.subscribers)
       THEN /\ sub_queues' = [sub_queues EXCEPT ![topic.subscribers[ppc[u].i]] =
                                 Append(@, [event |-> as_dict, of |-> ppc[u].n])]
            /\ ppc' = [ppc EXCEPT ![u].i = @ + 1]
            /\ UNCHANGED topic
       ELSE /\ ppc' = [ppc EXCEPT ![u].at = "idle"]
            /\ topic' = [topic EXCEPT !.lock = IF @ = u THEN None ELSE @]
            /\ UNCHANGED sub_queues
    /\ UNCHANGED <<published, subscribed_at>>
    /\ UNCHANGED notTopic

\* Topic.__init__, lines 23-30, for a topic of an event source of class owner
TopicInitial(owner) ==
    /\ topic = [topic_id |-> "t1", owner |-> owner, time |-> 0, clock |-> 1,
                data |-> None, subscribers |-> <<>>, history |-> <<>>,
                lock |-> None]
    /\ sub_queues = [q \in Queues |-> <<>>]
    /\ ppc = [u \in Publishers |-> [at |-> "idle", data |-> None, n |-> 0, i |-> 0]]
    /\ published = <<>>
    /\ subscribed_at = [q \in Queues |-> -1]

NextTopic ==
    \/ \E q \in Queues : Subscribe(q)
    \/ \E u \in Publishers :
        \/ \E d \in Records : UpdateCall(u, d)
        \/ UpdateEnters(u)
        \/ UpdateSets(u)
        \/ UpdateNotifies(u)
        \/ UpdatePuts(u)

\* ------------------------------------------------------------ event source

\* topic ids are strings of the letters a and b; a pattern is a string of
\* letters, "." (any character) and ".*" (any characters)
TopicIds == {<<"a">>, <<"a", "b">>, <<"b">>}
Patterns == {<<"a">>, <<"b">>, <<"a", "b">>, <<"a", ".">>, <<".*", "b">>, <<".*">>}

RECURSIVE re_match(_, _)
\* re.match(pattern, string): the pattern matches at the start of the string
re_match(pattern, string) ==
    IF pattern = <<>> THEN TRUE
    ELSE IF Head(pattern) = ".*"
    THEN \E n \in 0..Len(string) :
            re_match(Tail(pattern), SubSeq(string, n + 1, Len(string)))
    ELSE /\ string # <<>>
         /\ Head(pattern) = "." \/ Head(pattern) = Head(string)
         /\ re_match(Tail(pattern), Tail(string))

RECURSIVE Matching(_, _, _)
\* select, lines 80-84: the topics, in the order of the Map, whose id the pattern
\* matches and that are not in sources yet
Matching(id, items, sources) ==
    IF items = <<>> THEN sources
    ELSE Matching(id, Tail(items),
                  IF re_match(id, Head(items)) /\ Head(items) \notin Range(sources)
                  THEN Append(sources, Head(items)) ELSE sources)

RECURSIVE SelectInto(_, _)
\* select, lines 73-84: one pattern after the other
SelectInto(ids, sources) ==
    IF ids = <<>> THEN sources
    ELSE SelectInto(Tail(ids),
                    IF Head(ids) \in Range(topics)
                    THEN Append(sources, Head(ids))
                    ELSE Matching(Head(ids), topics, sources))

\* EventSource.select(*ids)
select(ids) == SelectInto(ids, <<>>)

\* the lists of at most n patterns
PatternLists(n) == UNION {[1..m -> Patterns] : m \in 0..n}

\* EventSource.add_topic, lines 61-66 (an id that exists raises an exception)
AddTopic(id) ==
    /\ Len(topics) < MaxTopics
    /\ id \notin Range(topics)
    /\ topics' = Append(topics, id)
    /\ UNCHANGED selected
    /\ UNCHANGED notSource

\* a call of EventSource.select
Select(ids) ==
    /\ selected' = [called |-> TRUE, ids |-> ids, sources |-> select(ids)]
    /\ UNCHANGED topics
    /\ UNCHANGED notSource

\* EventSource.__init__
SourceInitial ==
    /\ topics = <<>>
    /\ selected = [called |-> FALSE, ids |-> <<>>, sources |-> <<>>]

NextSource ==
    \/ \E id \in TopicIds : AddTopic(id)
    \/ \E ids \in PatternLists(MaxPatterns) : Select(ids)

\* ------------------------------------------------------------------ writer

\* the collector threads that write to the writer
Collectors == {"c1", "c2"}

\* the first n items of a sequence, and the rest
Take(seq, n) == SubSeq(seq, 1, n)
Drop(seq, n) == SubSeq(seq, n + 1, Len(seq))

RECURSIVE Concat(_, _)
\* Backlog.peek, lines 271-274: the items of the files, in the order of the files
Concat(files, d) ==
    IF files = <<>> THEN <<>> ELSE d[Head(files)] \o Concat(Tail(files), d)

\* Writer.is_healthy, lines 54-64: the probe is made when the writer is unhealthy
\* and the last probe is older than healthcheck_interval; up is what the probe finds
Probes == ~healthy /\ probe_due
HealthyAfter(up) == IF Probes THEN up ELSE healthy
is_healthy(up) ==
    /\ healthy' = HealthyAfter(up)
    /\ probe_due' = IF Probes THEN FALSE ELSE probe_due

\* how a do_write call can end: it returns, it raises HealthCheckException, it
\* raises another exception
Outcomes == {"ok", "HealthCheckException", "Exception"}

\* no do_write call has just been made
NoWrite == [by |-> None, outcome |-> None]

\* the envelopes given up: items, for the reason
GivenUp(items, reason) ==
    [e \in DOMAIN dropped \cup Range(items) |->
        IF e \in Range(items) THEN reason ELSE dropped[e]]

\* the threads that call Backlog.put: the collectors and the writer's worker
Putters == Collectors \cup {"worker"}

\* Backlog.put, lines 260-265, called by thread t: the file is written
\* (randomString gives a name not used before; the files are numbered in the
\* order they are written, which is the order of their mtime)
Backlog_put(t, items) ==
    IF writer_config.test
    THEN /\ dropped' = GivenUp(items, "test")
         /\ UNCHANGED <<disk, next_file, putting>>
    ELSE /\ disk' = [f \in DOMAIN disk \cup {next_file} |->
                        IF f = next_file THEN items ELSE disk[f]]
         /\ putting' = [putting EXCEPT ![t] = next_file]
         /\ next_file' = next_file + 1
         /\ UNCHANGED dropped

\* Backlog.put, line 266, in thread t: the file is appended to all_files
Backlog_append(t) ==
    /\ all_files' = Append(all_files, putting[t])
    /\ putting' = [putting EXCEPT ![t] = 0]

\* the sets of records of one write() call whose template result can be empty
Empties(n) ==
    IF writer_config.writer_def = "conditional" THEN SUBSET (1..n) ELSE {{}}

DataOutKeepsEmpty(first, n, E) == [j \in 1..n |-> first + j - 1]

\* Writer.write, lines 141-150: the envelopes of the records first..first+n-1,
\* without those of the records of E unless write_empty
DataOut(first, n, E) ==
    LET kept_at == SelectSeq([i \in 1..n |-> i],
                             LAMBDA i : i \notin E \/ writer_config.write_empty)
    IN  [j \in 1..Len(kept_at) |-> first + kept_at[j] - 1]

\* Writer.write, lines 128-165: the call prepares its envelopes and asks
\* is_healthy (a cron collector starts a job only while exit_event is not set);
\* with no envelope left, data_out[0] of line 156 raises IndexError
CollectorWrite(c) ==
    /\ cpc[c] = "loop" /\ ~exit_event
    /\ \E n \in 1..MaxData, up \in writer_config.healthcheck :
        \E E \in Empties(n) :
        LET out == DataOut(next_env, n, E) IN
        /\ next_env + n - 1 <= MaxEnvelopes
        /\ next_env' = next_env + n
        /\ empty' = empty \cup {next_env + i - 1 : i \in E}
        /\ IF out = <<>>
           THEN UNCHANGED <<healthy, probe_due, cpc, data_out, dropped>>
           ELSE /\ is_healthy(up)
                /\ IF HealthyAfter(up)
                   THEN /\ cpc' = [cpc EXCEPT ![c] = "put_queue"]
                        /\ data_out' = [data_out EXCEPT ![c] = out]
                        /\ UNCHANGED dropped
                   ELSE IF ~writer_config.disable_backlog
                   THEN /\ cpc' = [cpc EXCEPT ![c] = "put_backlog"]
                        /\ data_out' = [data_out EXCEPT ![c] = out]
                        /\ UNCHANGED dropped
                   ELSE /\ dropped' = GivenUp(out, "disable_backlog")
                        /\ UNCHANGED <<cpc, data_out>>
    /\ UNCHANGED <<writer_config, queue, all_files, disk, next_file, exit_event, wpc,
                   batch, batch_files, kept, written>>
    /\ UNCHANGED notWriter
    /\ UNCHANGED <<wrote, putting>>

\* Writer.write, lines 161-162: one queue.put
CollectorPutQueue(c) ==
    /\ cpc[c] = "put_queue"
    /\ queue' = Append(queue, Head(data_out[c]))
    /\ data_out' = [data_out EXCEPT ![c] = Tail(@)]
    /\ cpc' = [cpc EXCEPT ![c] = IF Tail(data_out[c]) = <<>> THEN "loop" ELSE @]
    /\ UNCHANGED <<writer_config, healthy, probe_due, all_files, disk, next_file,
                   exit_event, wpc, batch, batch_files, kept, next_env, written,
                   dropped>>
    /\ UNCHANGED notWriter
    /\ UNCHANGED <<empty, wrote, putting>>

CollectorPutBacklogOnQueue(c) ==
    /\ cpc[c] = "put_backlog"
    /\ queue' = queue \o data_out[c]
    /\ data_out' = [data_out EXCEPT ![c] = <<>>]
    /\ cpc' = [cpc EXCEPT ![c] = "loop"]
    /\ UNCHANGED <<writer_config, healthy, probe_due, all_files, disk, next_file,
                   exit_event, wpc, batch, batch_files, kept, next_env, written,
                   dropped>>
    /\ UNCHANGED notWriter
    /\ UNCHANGED <<empty, wrote, putting>>

\* Writer.write, line 165: backlog.put(data_out)
CollectorPutBacklog(c) ==
    /\ cpc[c] = "put_backlog"
    /\ Backlog_put(c, data_out[c])
    /\ data_out' = [data_out EXCEPT ![c] = <<>>]
    /\ cpc' = [cpc EXCEPT ![c] = IF writer_config.test THEN "loop" ELSE "append_backlog"]
    /\ UNCHANGED <<writer_config, healthy, probe_due, queue, all_files, exit_event,
                   wpc, batch, batch_files, kept, next_env, written>>
    /\ UNCHANGED notWriter
    /\ UNCHANGED <<empty, wrote>>

\* Writer.write, line 165: the end of backlog.put (Backlog.put, line 266)
CollectorAppendBacklog(c) ==
    /\ cpc[c] = "append_backlog"
    /\ Backlog_append(c)
    /\ cpc' = [cpc EXCEPT ![c] = "loop"]
    /\ UNCHANGED <<writer_config, healthy, probe_due, queue, disk, next_file,
                   exit_event, wpc, batch, batch_files, kept, data_out, next_env,
                   written, dropped>>
    /\ UNCHANGED notWriter
    /\ UNCHANGED <<empty, wrote>>

\* the collector's worker sees exit_event set and ends (collector.py lines 127, 180)
CollectorExit(c) ==
    /\ cpc[c] = "loop" /\ exit_event
    /\ cpc' = [cpc EXCEPT ![c] = "done"]
    /\ UNCHANGED <<writer_config, healthy, probe_due, queue, all_files, disk,
                   next_file, exit_event, wpc, batch, batch_files, kept, data_out,
                   next_env, written, dropped>>
    /\ UNCHANGED notWriter
    /\ UNCHANGED <<empty, wrote, putting>>

\* the termination signal (click_ext.py line 74)
SetExit ==
    /\ ~exit_event
    /\ exit_event' = TRUE
    /\ UNCHANGED <<writer_config, healthy, probe_due, queue, all_files, disk,
                   next_file, wpc, batch, batch_files, kept, cpc, data_out, next_env,
                   written, dropped>>
    /\ UNCHANGED notWriter
    /\ UNCHANGED <<empty, wrote, putting>>

\* the backend recovers: from now on do_write succeeds
BackendRecovers ==
    /\ writer_config.do_write # {"ok"}
    /\ writer_config' = [writer_config EXCEPT !.do_write = {"ok"}]
    /\ UNCHANGED <<healthy, probe_due, queue, all_files, disk, next_file,
                   exit_event, wpc, batch, batch_files, kept, cpc, data_out, next_env,
                   written, dropped>>
    /\ UNCHANGED notWriter
    /\ UNCHANGED <<empty, wrote, putting>>

\* time passes: the last probe becomes older than healthcheck_interval
Tick ==
    /\ ~probe_due
    /\ probe_due' = TRUE
    /\ UNCHANGED <<writer_config, healthy, queue, all_files, disk, next_file,
                   exit_event, wpc, batch, batch_files, kept, cpc, data_out, next_env,
                   written, dropped>>
    /\ UNCHANGED notWriter
    /\ UNCHANGED <<empty, wrote, putting>>

\* Writer.worker, lines 211 and 215: exit_event.wait(write_interval) returns
\* and the loop tests exit_event
WorkerLoop ==
    /\ wpc = "loop"
    /\ wpc' = IF exit_event THEN "final" ELSE "process_queue"
    /\ UNCHANGED <<writer_config, healthy, probe_due, queue, all_files, disk,
                   next_file, exit_event, batch, batch_files, kept, cpc, data_out,
                   next_env, written, dropped>>
    /\ UNCHANGED notWriter
    /\ wrote' = NoWrite
    /\ UNCHANGED <<empty, putting>>

\* _process_qeue, lines 183-188: is_healthy, then the batch is taken off the queue
\* (at label "process_queue" in the loop, at "final" after it)
WorkerProcessQueue ==
    /\ wpc \in {"process_queue", "final"}
    /\ \E up \in writer_config.healthcheck :
        /\ is_healthy(up)
        /\ IF HealthyAfter(up) /\ Len(queue) > 0
           THEN LET n == IF Len(queue) < writer_config.batch_size
                         THEN Len(queue) ELSE writer_config.batch_size IN
                /\ batch' = Take(queue, n)
                /\ queue' = Drop(queue, n)
                /\ wpc' = IF wpc = "final" THEN "final_write" ELSE "write"
           ELSE /\ wpc' = IF wpc = "final" THEN "final_drain" ELSE "check_backlog"
                /\ UNCHANGED <<batch, queue>>
    /\ UNCHANGED <<writer_config, all_files, disk, next_file, exit_event, batch_files,
                   kept, cpc, data_out, next_env, written, dropped>>
    /\ UNCHANGED notWriter
    /\ wrote' = NoWrite
    /\ UNCHANGED <<empty, putting>>

AfterWrite == IF wpc = "final_write" THEN "final_drain" ELSE "check_backlog"

\* _process_qeue, lines 195-198: do_write(batch) succeeds (in test mode it is
\* not called)
WorkerWriteOk ==
    /\ wpc \in {"write", "final_write"}
    /\ writer_config.test \/ "ok" \in writer_config.do_write
    /\ IF writer_config.test
       THEN dropped' = GivenUp(batch, "test") /\ UNCHANGED written
       ELSE written' = written \o batch /\ UNCHANGED dropped
    /\ batch' = <<>>
    /\ wpc' = AfterWrite
    /\ UNCHANGED <<writer_config, healthy, probe_due, queue, all_files, disk,
                   next_file, exit_event, batch_files, kept, cpc, data_out, next_env>>
    /\ UNCHANGED notWriter
    /\ wrote' = [by |-> "queue", outcome |-> IF writer_config.test THEN "test" ELSE "ok"]
    /\ UNCHANGED <<empty, putting>>

\* _process_qeue, lines 199-205: do_write raises HealthCheckException
WorkerWriteUnhealthy ==
    /\ wpc \in {"write", "final_write"}
    /\ ~writer_config.test
    /\ "HealthCheckException" \in writer_config.do_write
    /\ healthy' = FALSE
    /\ Backlog_put("worker", batch)
    /\ batch' = <<>>
    /\ wpc' = IF wpc = "final_write" THEN "final_append" ELSE "append"
    /\ UNCHANGED <<writer_config, probe_due, queue, all_files, exit_event,
                   batch_files, kept, cpc, data_out, next_env, written>>
    /\ UNCHANGED notWriter
    /\ wrote' = [by |-> "queue", outcome |-> "HealthCheckException"]
    /\ UNCHANGED empty

\* _process_qeue, line 203, and Writer.worker, line 229: the end of backlog.put
\* (Backlog.put, line 266)
WorkerAppendBacklog ==
    /\ wpc \in {"append", "final_append", "drain_append"}
    /\ Backlog_append("worker")
    /\ wpc' = CASE wpc = "append" -> "check_backlog"
                 [] wpc = "final_append" -> "final_drain"
                 [] wpc = "drain_append" -> "done"
    /\ UNCHANGED <<writer_config, healthy, probe_due, queue, disk, next_file,
                   exit_event, batch, batch_files, kept, cpc, data_out, next_env,
                   written, dropped>>
    /\ UNCHANGED notWriter
    /\ UNCHANGED <<empty, wrote>>

WorkerWriteErrorMarksUnhealthy ==
    /\ wpc \in {"write", "final_write"}
    /\ ~writer_config.test
    /\ "Exception" \in writer_config.do_write
    /\ healthy' = FALSE
    /\ dropped' = GivenUp(batch, "discarded")
    /\ batch' = <<>>
    /\ wpc' = AfterWrite
    /\ UNCHANGED <<writer_config, probe_due, queue, all_files, disk, next_file,
                   exit_event, batch_files, kept, cpc, data_out, next_env, written>>
    /\ UNCHANGED notWriter
    /\ wrote' = [by |-> "queue", outcome |-> "Exception"]
    /\ UNCHANGED <<empty, putting>>

\* _process_qeue, lines 206-209: do_write raises another exception
WorkerWriteError ==
    /\ wpc \in {"write", "final_write"}
    /\ ~writer_config.test
    /\ "Exception" \in writer_config.do_write
    /\ dropped' = GivenUp(batch, "discarded")
    /\ batch' = <<>>
    /\ wpc' = AfterWrite
    /\ UNCHANGED <<writer_config, healthy, probe_due, queue, all_files, disk,
                   next_file, exit_event, batch_files, kept, cpc, data_out, next_env,
                   written>>
    /\ UNCHANGED notWriter
    /\ wrote' = [by |-> "queue", outcome |-> "Exception"]
    /\ UNCHANGED <<empty, putting>>

\* Writer.worker, lines 213-214: backlog.process() if is_healthy()
WorkerCheckBacklog ==
    /\ wpc = "check_backlog"
    /\ \E up \in writer_config.healthcheck :
        /\ is_healthy(up)
        /\ wpc' = IF HealthyAfter(up) THEN "backlog" ELSE "loop"
    /\ UNCHANGED <<writer_config, queue, all_files, disk, next_file, exit_event,
                   batch, batch_files, kept, cpc, data_out, next_env, written, dropped>>
    /\ UNCHANGED notWriter
    /\ wrote' = NoWrite
    /\ UNCHANGED <<empty, putting>>

\* Backlog.process, lines 290-296: the loop's test and peek(batch_size)
BacklogPeek ==
    /\ wpc = "backlog"
    /\ IF Len(all_files) > 0
       THEN LET n == IF writer_config.batch_size < Len(all_files)
                     THEN writer_config.batch_size ELSE Len(all_files) IN
            /\ batch_files' = Take(all_files, n)
            /\ batch' = Concat(Take(all_files, n), disk)
            /\ wpc' = "backlog_write"
       ELSE /\ wpc' = "loop"
            /\ UNCHANGED <<batch, batch_files>>
    /\ UNCHANGED <<writer_config, healthy, probe_due, queue, all_files, disk,
                   next_file, exit_event, kept, cpc, data_out, next_env, written,
                   dropped>>
    /\ UNCHANGED notWriter
    /\ wrote' = NoWrite
    /\ UNCHANGED <<empty, putting>>

\* Backlog.process, lines 298-304 and Backlog.remove, lines 278-283: do_write
\* succeeds, the files are removed and the new list is built
BacklogWriteOk ==
    /\ wpc = "backlog_write"
    /\ writer_config.test \/ "ok" \in writer_config.do_write
    /\ IF writer_config.test
       THEN UNCHANGED <<written, disk>>
       ELSE /\ written' = written \o batch
            /\ disk' = [f \in DOMAIN disk \ Range(batch_files) |-> disk[f]]
    /\ kept' = SelectSeq(all_files, LAMBDA f : f \notin Range(batch_files))
    /\ batch' = <<>>
    /\ wpc' = "backlog_assign"
    /\ UNCHANGED <<writer_config, healthy, probe_due, queue, all_files, next_file,
                   exit_event, batch_files, cpc, data_out, next_env, dropped>>
    /\ UNCHANGED notWriter
    /\ wrote' = [by |-> "backlog", outcome |-> IF writer_config.test THEN "test" ELSE "ok"]
    /\ UNCHANGED <<empty, putting>>

\* Backlog.remove, line 283: the new list is assigned to all_files
BacklogAssign ==
    /\ wpc = "backlog_assign"
    /\ all_files' = kept
    /\ kept' = <<>>
    /\ batch_files' = <<>>
    /\ wpc' = "backlog"
    /\ UNCHANGED <<writer_config, healthy, probe_due, queue, disk, next_file,
                   exit_event, batch, cpc, data_out, next_env, written, dropped>>
    /\ UNCHANGED notWriter
    /\ wrote' = NoWrite
    /\ UNCHANGED <<empty, putting>>

BacklogWriteFailsAndRemoves ==
    /\ wpc = "backlog_write"
    /\ ~writer_config.test
    /\ writer_config.do_write # {"ok"}
    /\ healthy' = FALSE
    /\ disk' = [f \in DOMAIN disk \ Range(batch_files) |-> disk[f]]
    /\ all_files' = SelectSeq(all_files, LAMBDA f : f \notin Range(batch_files))
    /\ batch' = <<>>
    /\ batch_files' = <<>>
    /\ wpc' = "loop"
    /\ UNCHANGED <<writer_config, probe_due, queue, next_file, exit_event, kept, cpc,
                   data_out, next_env, written, dropped>>
    /\ UNCHANGED notWriter
    /\ wrote' = [by |-> "backlog", outcome |-> "Exception"]
    /\ UNCHANGED <<empty, putting>>

\* Backlog.process, lines 305-308: do_write raises (any exception)
BacklogWriteFails ==
    /\ wpc = "backlog_write"
    /\ ~writer_config.test
    /\ writer_config.do_write # {"ok"}
    /\ healthy' = FALSE
    /\ batch' = <<>>
    /\ batch_files' = <<>>
    /\ wpc' = "loop"
    /\ UNCHANGED <<writer_config, probe_due, queue, all_files, disk, next_file,
                   exit_event, kept, cpc, data_out, next_env, written, dropped>>
    /\ UNCHANGED notWriter
    /\ wrote' = [by |-> "backlog", outcome |-> "Exception"]
    /\ UNCHANGED <<empty, putting>>

\* Writer.worker, lines 222-233: what is left on the queue goes to the backlog and
\* the thread ends
WorkerFinalDrain ==
    /\ wpc = "final_drain"
    /\ IF Len(queue) > 0
       THEN /\ Backlog_put("worker", queue)
            /\ queue' = <<>>
            /\ wpc' = IF writer_config.test THEN "done" ELSE "drain_append"
       ELSE /\ wpc' = "done"
            /\ UNCHANGED <<queue, disk, next_file, dropped, putting>>
    /\ UNCHANGED <<writer_config, healthy, probe_due, all_files, exit_event, batch,
                   batch_files, kept, cpc, data_out, next_env, written>>
    /\ UNCHANGED notWriter
    /\ wrote' = NoWrite
    /\ UNCHANGED empty

\* the configurations of the pipeline: write_empty is the default and the
\* writer definition is one that gives no empty record
WriterConfigs ==
    [disable_backlog : BOOLEAN, test : BOOLEAN, batch_size : 1..MaxBatch,
     write_empty : {TRUE}, writer_def : {"plain"}, healthcheck : {BOOLEAN},
     do_write : {Outcomes}]

\* Writer.__init__ defaults (batch_size within the bound)
DefaultWriterConfig ==
    [disable_backlog |-> FALSE, test |-> FALSE, batch_size |-> MaxBatch,
     write_empty |-> TRUE, writer_def |-> "plain", healthcheck |-> BOOLEAN,
     do_write |-> Outcomes]

\* Writer.__init__, Backlog.__init__ (an empty backlog directory)
WriterInitial(config) ==
    /\ writer_config = config
    /\ healthy = FALSE
    /\ probe_due = TRUE
    /\ queue = <<>>
    /\ all_files = <<>>
    /\ disk = << >>
    /\ next_file = 1
    /\ exit_event = FALSE
    /\ wpc = "loop"
    /\ batch = <<>>
    /\ batch_files = <<>>
    /\ kept = <<>>
    /\ cpc = [c \in Collectors |-> "loop"]
    /\ data_out = [c \in Collectors |-> <<>>]
    /\ next_env = 1
    /\ written = <<>>
    /\ dropped = << >>
    /\ empty = {}
    /\ wrote = NoWrite
    /\ putting = [t \in Putters |-> 0]

\* ---------------------------------------------------------- cron collector

\* what the cron workers' steps leave alone
notCron == <<govVars, writerVars, threadVars, topicVars, sourceVars, runVars,
              stateVars, templateVars, httpVars, eventVars, healthVars>>

\* CronCollector.worker, lines 124-126: the schedule and the first time2sleep
\* are computed
NewCron ==
    [fires |-> 0, first_fire_after_signal |-> FALSE, jobs |-> 0, observed |-> FALSE,
     woken_by |-> None, jobs_at_wake |-> 0, last_job |-> None]

\* time passes: the scheduled fire the worker waits for comes (get_time_to_sleep,
\* lines 110-121, gives the time to a fire that has not passed yet)
CronTimePasses(c) ==
    /\ crpc[c] = "wait" /\ ~due[c]
    /\ cron[c].fires < MaxFires
    /\ due' = [due EXCEPT ![c] = TRUE]
    /\ cron' = [cron EXCEPT ![c].fires = @ + 1,
                            ![c].first_fire_after_signal =
                                IF cron[c].fires = 0 THEN exit_event ELSE @]
    /\ UNCHANGED crpc
    /\ UNCHANGED notCron

\* line 127: while not exit_event.is_set()
CronTest(c) ==
    /\ crpc[c] = "test"
    /\ crpc' = [crpc EXCEPT ![c] = IF exit_event THEN "done" ELSE "wait"]
    /\ cron' = [cron EXCEPT ![c].observed = @ \/ exit_event]
    /\ UNCHANGED due
    /\ UNCHANGED notCron

\* line 128: exit_event.wait(time2sleep) returns, the time having passed or the
\* event being set
CronWaitReturns(c) ==
    /\ crpc[c] = "wait"
    /\ due[c] \/ exit_event
    /\ crpc' = [crpc EXCEPT ![c] = "check"]
    /\ due' = [due EXCEPT ![c] = FALSE]
    /\ cron' = [cron EXCEPT ![c].woken_by = IF due[c] THEN "timeout" ELSE "signal",
                            ![c].jobs_at_wake = cron[c].jobs]
    /\ UNCHANGED notCron

CronCheckIgnoresSignal(c) ==
    /\ crpc[c] = "check"
    /\ crpc' = [crpc EXCEPT ![c] = "job"]
    /\ cron' = [cron EXCEPT ![c].observed = @ \/ exit_event]
    /\ UNCHANGED due
    /\ UNCHANGED notCron

\* line 129: if not exit_event.is_set()
CronCheck(c) ==
    /\ crpc[c] = "check"
    /\ crpc' = [crpc EXCEPT ![c] = IF exit_event THEN "test" ELSE "job"]
    /\ cron' = [cron EXCEPT ![c].observed = @ \/ exit_event]
    /\ UNCHANGED due
    /\ UNCHANGED notCron

\* lines 130-135: the job runs (self.write(self.prepare_data()) returns or
\* raises an exception, which is logged) and the next time2sleep is computed;
\* what write() does to the writer is CollectorWrite
CronJob(c) ==
    /\ crpc[c] = "job"
    /\ \E outcome \in {"ok", "Exception"} :
        cron' = [cron EXCEPT ![c].jobs = @ + 1, ![c].last_job = outcome]
    /\ crpc' = [crpc EXCEPT ![c] = "test"]
    /\ UNCHANGED due
    /\ UNCHANGED notCron

\* a step of a cron worker's thread
CronSteps(c) ==
    \/ CronTest(c)
    \/ CronWaitReturns(c)
    \/ CronCheck(c)
    \/ CronJob(c)

\* Component.start, component.py line 128: the worker threads are started
CronInitial ==
    /\ crpc = [c \in Collectors |-> "test"]
    /\ due = [c \in Collectors |-> FALSE]
    /\ cron = [c \in Collectors |-> NewCron]

NextCron ==
    \/ \E c \in Collectors :
        \/ CronTimePasses(c)
        \/ CronSteps(c)
    \/ SetExit

\* ------------------------------------------- supervisor, worker components

\* what the steps of run() and of the workers leave alone, but for exit_event
notRun == <<govVars, writerVars, threadVars, topicVars, sourceVars, cronVars,
             stateVars, templateVars, httpVars, eventVars, healthVars>>

\* the class of a component, by its id
Kind(c) ==
    CASE c \in {"writer1", "writer2"} -> "Writer"
      [] c \in {"cron1"} -> "CronCollector"
      [] c \in {"event1"} -> "EventCollector"
      [] OTHER -> "BaseProvider"

\* isinstance(component, WorkerComponent): writers and collectors
IsWorker(c) == Kind(c) # "BaseProvider"

\* the configurations: one or two writers, one or two collectors, a provider
\* or none
Scopes ==
    [writers : {<<"writer1">>, <<"writer1", "writer2">>},
     providers : {<<>>, <<"provider1">>},
     collectors : {<<"cron1">>, <<"cron1", "event1">>, <<"event1", "cron1">>}]

DefaultScope ==
    [writers |-> <<"writer1">>, providers |-> <<>>, collectors |-> <<"cron1">>]

\* the components there can be
Components == {"writer1", "writer2", "provider1", "cron1", "event1"}

\* Config.init_config, lines 358-360: the order in which the components are
\* constructed
constructed == scope.writers \o scope.providers \o scope.collectors

\* Config.init_config, lines 361-365
all_components == scope.writers \o scope.collectors \o scope.providers

\* a thread that was started and has not ended (Thread.is_alive)
Alive(state) == state \in {"started", "running"}

\* WorkerComponent.running, line 135
running(c) == thread[c] # <<>> /\ Alive(thread[c][Len(thread[c])])

\* WorkerComponent.start, lines 126-129: a new thread is made and started
start(c) == thread' = [thread EXCEPT ![c] = Append(@, "started")]

\* run, lines 48-50: one turn of the loop that starts the components, or its end
RunStart ==
    /\ spc.at = "start"
    /\ IF spc.i <= Len(all_components)
       THEN LET c == all_components[spc.i] IN
            /\ IF IsWorker(c)
               THEN /\ start(c)
                    /\ run_log' = [run_log EXCEPT !.started = Append(@, c)]
               ELSE UNCHANGED <<thread, run_log>>
            /\ spc' = [spc EXCEPT !.i = @ + 1]
       ELSE /\ spc' = [at |-> "wait", i |-> 0]
            /\ UNCHANGED <<thread, run_log>>
    /\ UNCHANGED <<scope, subscriptions>>
    /\ UNCHANGED notRun

\* the worker thread begins to run worker(exit_event); EventCollector.worker,
\* lines 163-164, subscribes the collector's queue (Topic.subscribe appends it)
WorkerRuns(c) ==
    \E k \in DOMAIN thread[c] :
        /\ thread[c][k] = "started"
        /\ thread' = [thread EXCEPT ![c][k] = "running"]
        /\ subscriptions' = IF Kind(c) = "EventCollector"
                            THEN Append(subscriptions, c) ELSE subscriptions
        /\ UNCHANGED <<scope, spc, run_log>>
        /\ UNCHANGED notRun

\* worker(exit_event) sees the termination signal and returns (writer.py line
\* 211, collector.py lines 127 and 180)
WorkerEnds(c) ==
    \E k \in DOMAIN thread[c] :
        /\ thread[c][k] = "running"
        /\ exit_event
        /\ thread' = [thread EXCEPT ![c][k] = "ended"]
        /\ UNCHANGED <<scope, spc, subscriptions, run_log>>
        /\ UNCHANGED notRun

\* worker(exit_event) is left by an exception it does not catch
WorkerFails(c) ==
    \E k \in DOMAIN thread[c] :
        /\ thread[c][k] = "running"
        /\ thread' = [thread EXCEPT ![c][k] = "ended"]
        /\ UNCHANGED <<scope, spc, subscriptions, run_log>>
        /\ UNCHANGED notRun

\* run, line 53: exit_event.wait() returns
RunWait ==
    /\ spc.at = "wait"
    /\ exit_event
    /\ spc' = [at |-> "join", i |-> 1]
    /\ UNCHANGED <<scope, thread, subscriptions, run_log>>
    /\ UNCHANGED notRun

RunJoinDoesNotWait ==
    /\ spc.at = "join"
    /\ IF spc.i <= Len(all_components)
       THEN LET c == all_components[spc.i] IN
            /\ run_log' = IF IsWorker(c)
                          THEN [run_log EXCEPT !.joined = Append(@, c)] ELSE run_log
            /\ spc' = [spc EXCEPT !.i = @ + 1]
       ELSE /\ spc' = [at |-> "destroy", i |-> 1]
            /\ UNCHANGED run_log
    /\ UNCHANGED <<scope, thread, subscriptions>>
    /\ UNCHANGED notRun

\* run, lines 56-58, and WorkerComponent.join, lines 141-142: one turn of the
\* loop that joins the workers (thread.join() returns when the thread has
\* ended), or its end
RunJoin ==
    /\ spc.at = "join"
    /\ IF spc.i <= Len(all_components)
       THEN LET c == all_components[spc.i] IN
            /\ IsWorker(c) => ~running(c)
            /\ run_log' = IF IsWorker(c)
                          THEN [run_log EXCEPT !.joined = Append(@, c)] ELSE run_log
            /\ spc' = [spc EXCEPT !.i = @ + 1]
       ELSE /\ spc' = [at |-> "destroy", i |-> 1]
            /\ UNCHANGED run_log
    /\ UNCHANGED <<scope, thread, subscriptions>>
    /\ UNCHANGED notRun

\* run, lines 61-64: one turn of the loop that destroys the components, or
\* its end
RunDestroy ==
    /\ spc.at = "destroy"
    /\ IF spc.i <= Len(all_components)
       THEN /\ run_log' = [run_log EXCEPT
                              !.destroyed = Append(@, all_components[spc.i])]
            /\ spc' = [spc EXCEPT !.i = @ + 1]
       ELSE /\ spc' = [at |-> "done", i |-> 0]
            /\ UNCHANGED run_log
    /\ UNCHANGED <<scope, thread, subscriptions>>
    /\ UNCHANGED notRun

\* a call of WorkerComponent.start on a worker component of the configuration
StartCall(c) ==
    /\ spc.at = "calls"
    /\ c \in Range(all_components) /\ IsWorker(c)
    /\ Len(thread[c]) < MaxStarts
    /\ start(c)
    /\ UNCHANGED <<scope, spc, subscriptions, run_log>>
    /\ UNCHANGED notRun

\* Config.init_config has loaded the configuration (run, line 44)
RunInitial(config) ==
    /\ scope = config
    /\ spc = [at |-> "start", i |-> 1]
    /\ thread = [c \in Components |-> <<>>]
    /\ subscriptions = <<>>
    /\ run_log = [started |-> <<>>, joined |-> <<>>, destroyed |-> <<>>]

NextRun ==
    \/ RunStart
    \/ RunWait
    \/ RunJoin
    \/ RunDestroy
    \/ SetExit
    \/ \E c \in Components :
        \/ WorkerRuns(c)
        \/ WorkerEnds(c)
        \/ WorkerFails(c)

\* the components are constructed and start is called on them
StartInitial(config) ==
    /\ scope = config
    /\ spc = [at |-> "calls", i |-> 0]
    /\ thread = [c \in Components |-> <<>>]
    /\ subscriptions = <<>>
    /\ run_log = [started |-> <<>>, joined |-> <<>>, destroyed |-> <<>>]

NextStart ==
    \/ SetExit
    \/ \E c \in Components :
        \/ StartCall(c)
        \/ WorkerRuns(c)
        \/ WorkerEnds(c)
        \/ WorkerFails(c)

\* ------------------------------------------------------------ state object

\* what the steps of the State object leave alone
notState == <<govVars, writerVars, threadVars, topicVars, sourceVars, cronVars,
              runVars, templateVars, httpVars, eventVars, healthVars>>

\* the names and values of the timers, the keys and values of the other data
TimerNames == {"a", "b"}
TimerValues == {0, 1}
DataKeys == {"x"}
DataValues == {1}

\* the registered data callbacks (State.add_data_callback)
data_callbacks == {"on_data1", "on_data2"}

\* the values of the key "timer": {name: {value: seconds}}, as the entries in
\* the order of the dict
TimerEntries == [name : TimerNames, value : TimerValues]
TimerDicts ==
    {<<>>} \cup {<<e>> : e \in TimerEntries}
           \cup {p \in {<<e1, e2>> : e1 \in TimerEntries, e2 \in TimerEntries} :
                    p[1].name # p[2].name}

\* the records without the key "timer", as sets of <<key, value>>
Rests == {{}} \cup {{<<k, x>>} : k \in DataKeys, x \in DataValues}

\* the records passed to State.update: whether there is a key "timer" and its
\* value, the other keys, and whether "timer" is the last key of the dict
Deltas ==
    {d \in [has_timer : BOOLEAN, timer : TimerDicts, rest : Rests,
            timer_last : BOOLEAN] :
        /\ ~d.has_timer => d.timer = <<>>
        /\ (~d.has_timer \/ d.rest = {}) => d.timer_last}

\* the record a callback gets from update (the delta without "timer") and
\* from _on_timer ({"timer": v})
Remaining(d) == [has_timer |-> FALSE, timer |-> <<>>, rest |-> d.rest]
OnTimerData(v) == [has_timer |-> TRUE, timer |-> v, rest |-> {}]

\* a dict without a key, and with a key set
Without(f, k) == [x \in DOMAIN f \ {k} |-> f[x]]
With(f, k, v) == [x \in DOMAIN f \cup {k} |-> IF x = k THEN v ELSE f[x]]

RECURSIVE ApplyTimers(_, _, _, _)
\* State.update, lines 43-56: the entries of the timer dict, one after the other
ApplyTimers(entries, tm, objs, call) ==
    IF entries = <<>> THEN [timers |-> tm, objs |-> objs]
    ELSE LET e == Head(entries)
             timer == IF e.name \in DOMAIN tm THEN tm[e.name] ELSE 0
         IN  IF timer = 0 /\ e.value > 0
             THEN ApplyTimers(Tail(entries), With(tm, e.name, Len(objs) + 1),
                              Append(objs, [name |-> e.name, value |-> e.value,
                                            call |-> call, status |-> "pending",
                                            rounds |-> 0]),
                              call)
             ELSE IF timer # 0 /\ e.value = 0
             THEN ApplyTimers(Tail(entries), Without(tm, e.name),
                              [objs EXCEPT ![timer].status =
                                  IF @ = "pending" THEN "cancelled" ELSE @],
                              call)
             ELSE ApplyTimers(Tail(entries), tm, objs, call)

\* State.update, lines 41-45: name and v when the loops have ended: name is
\* the last name of the timer dict, v the value of the last key of data (the
\* timer dict, or a value of another key)
Cell(d) ==
    [name |-> IF d.timer = <<>> THEN None ELSE d.timer[Len(d.timer)].name,
     v_is_timer |-> d.timer_last,
     v |-> d.timer]

\* merge_dicts(self.data, data), line 67, for records of one level
merge_dicts(stored, d) ==
    {p \in stored : \A q \in d : q[1] # p[1]} \cup d

\* what the callbacks got when none was called, and when each was called with
\* the record while the stored record was stored
NoRound == [called |-> FALSE, data |-> Remaining([rest |-> {}]), seen |-> {}]
Round(record, stored) == [called |-> TRUE, data |-> record, seen |-> stored]

UpdateMergesFirst(d) ==
    /\ Len(cells) < MaxStateUpdates
    /\ LET applied == IF d.has_timer
                      THEN ApplyTimers(d.timer, timers, timer_objs, Len(cells) + 1)
                      ELSE [timers |-> timers, objs |-> timer_objs]
       IN  /\ timers' = applied.timers
           /\ timer_objs' = applied.objs
    /\ cells' = Append(cells, Cell(d))
    /\ state_data' = merge_dicts(state_data, d.rest)
    /\ callback_log' = [op |-> "update", arg |-> d, timer |-> 0,
                        round |-> [cb \in data_callbacks |->
                                      Round(Remaining(d), state_data')]]
    /\ UNCHANGED notState

\* State.update, lines 41-67
Update(d) ==
    /\ Len(cells) < MaxStateUpdates
    /\ LET applied == IF d.has_timer
                      THEN ApplyTimers(d.timer, timers, timer_objs, Len(cells) + 1)
                      ELSE [timers |-> timers, objs |-> timer_objs]
       IN  /\ timers' = applied.timers
           /\ timer_objs' = applied.objs
    /\ cells' = Append(cells, Cell(d))
    /\ callback_log' = [op |-> "update", arg |-> d, timer |-> 0,
                        round |-> [cb \in data_callbacks |->
                                      Round(Remaining(d), state_data)]]
    /\ state_data' = merge_dicts(state_data, d.rest)
    /\ UNCHANGED notState

\* the delta of a State that was not updated
NoDelta == [has_timer |-> FALSE, timer |-> <<>>, rest |-> {}, timer_last |-> TRUE]

\* the Timer t elapses and runs lambda: _on_timer(name, {"timer": v}), lines
\* 34-39 and 49, with name and v of the update call that created it:
\* self.timers[name] raises KeyError when name has no entry, and
\* data["timer"][name]["value"] of line 37 raises when v is not the timer dict
TimerElapses(t) ==
    /\ t \in DOMAIN timer_objs
    /\ timer_objs[t].status = "pending"
    /\ LET cell == cells[timer_objs[t].call]
           failed == [op |-> "timer", arg |-> NoDelta, timer |-> t,
                      round |-> [cb \in data_callbacks |-> NoRound]]
       IN  IF cell.name \notin DOMAIN timers
           THEN /\ timer_objs' = [timer_objs EXCEPT ![t].status = "failed"]
                /\ callback_log' = failed
                /\ UNCHANGED timers
           ELSE /\ timers' = Without(timers, cell.name)
                /\ IF ~cell.v_is_timer
                   THEN /\ timer_objs' = [timer_objs EXCEPT ![t].status = "failed"]
                        /\ callback_log' = failed
                   ELSE /\ timer_objs' = [timer_objs EXCEPT ![t].status = "fired",
                                                            ![t].rounds = @ + 1]
                        /\ callback_log' =
                              [op |-> "timer", arg |-> NoDelta, timer |-> t,
                               round |-> [cb \in data_callbacks |->
                                            Round(OnTimerData(cell.v), state_data)]]
    /\ UNCHANGED <<state_data, cells>>
    /\ UNCHANGED notState

\* State.__init__, lines 24-28, and the callbacks registered
StateInitial ==
    /\ state_data = {}
    /\ timers = << >>
    /\ timer_objs = <<>>
    /\ cells = <<>>
    /\ callback_log = [op |-> None, arg |-> NoDelta, timer |-> 0,
                       round |-> [cb \in data_callbacks |-> NoRound]]

NextState ==
    \/ \E d \in Deltas : Update(d)
    \/ \E t \in 1..(2 * MaxStateUpdates) : TimerElapses(t)

\* ---------------------------------------------------- conditional template
\* writers/writer.py, Writer.process_conditional_dict, lines 66-126.  Writer.write
\* (lines 142-148) calls it once per record with the same writer_def object, so
\* what a call leaves in the template is there in the next call.

notTemplate == <<govVars, writerVars, threadVars, topicVars, sourceVars, cronVars,
                 runVars, stateVars, httpVars, eventVars, healthVars>>

\* the scopes: data.state is 0 ("off"), 1 ("on") or 2, or data has no state and
\* an expression that reads it raises
TemplateScopes ==
    [has_state : {TRUE}, state : 0..2] \cup {[has_state |-> FALSE, state |-> 0]}

\* a value of a payload: a literal, or the PythonExpression data.state
Lit(n) == [expr |-> FALSE, v |-> n]

Expr == [expr |-> TRUE, v |-> 0]

\* a dict is a function from the paths of its leaves to their values: {m: {p: 1}}
\* is (<<"m", "p">> :> Lit(1)); the dict {}
EmptyDict == [p \in {} |-> Lit(0)]

\* c.get("__last_if_eval") of a block no call has recorded a result on
NoEval == [set |-> FALSE, v |-> 0]

\* a block without $def: $if is absent ("none"), data.state == 1 ("on") or
\* data.state ("raw"); if_opts is the set of the flags of $opts
Block(if_expr, if_opts, payload) ==
    [if_expr |-> if_expr, if_opts |-> if_opts, payload |-> payload,
     has_def |-> FALSE, sub |-> <<>>, last_if_eval |-> NoEval]

LeafBlocks ==
    {Block("none", {}, (<<"e">> :> Lit(1)) @@ (<<"m", "p">> :> Lit(1))),
     Block("on", {}, (<<"e">> :> Lit(2)) @@ (<<"m", "q">> :> Expr)),
     Block("on", {"onoff"}, <<"e">> :> Lit(1)),
     Block("raw", {"$onoff"}, <<"m">> :> Lit(3)),
     Block("on", {"$onoff"}, <<"e">> :> Expr)}

\* a block with its own $def, a list of one block; its other keys are not read
NestedBlocks ==
    {[if_expr |-> "raw", if_opts |-> {}, payload |-> <<"e">> :> Lit(3),
      has_def |-> TRUE, sub |-> <<b>>, last_if_eval |-> NoEval] :
        b \in {Block("on", {"$onoff"}, <<"e">> :> Lit(2)),
               Block("none", {}, <<"m", "q">> :> Expr)}}

Blocks == LeafBlocks \cup NestedBlocks

\* d: $def is absent (line 115), one block (line 122) or a list of blocks
\* (line 119)
Templates ==
    {[def |-> "none", blocks |-> <<>>]}
    \cup {[def |-> "dict", blocks |-> <<b>>] : b \in Blocks}
    \cup {[def |-> "list", blocks |-> bs] :
            bs \in UNION {[1..n -> Blocks] : n \in 0..MaxBlocks}}

DefaultTemplate == [def |-> "none", blocks |-> <<>>]

\* if_expr.eval(scope), line 92, raises
GuardRaises(if_expr, s) == if_expr # "none" /\ ~s.has_state

\* eval_result of line 92; True is 1 and False is 0, as Python compares them
GuardValue(if_expr, s) ==
    CASE if_expr = "none" -> 1
      [] if_expr = "on" -> IF s.state = 1 THEN 1 ELSE 0
      [] OTHER -> s.state

\* path p is path q or leads to it
Prefix(p, q) == Len(p) <= Len(q) /\ SubSeq(q, 1, Len(p)) = p

Conflicts(p, q) == Prefix(p, q) \/ Prefix(q, p)

\* deep_merge(a, b) of lines 100 and 102, a the result of the block and b the
\* data of the blocks before it: sub-mappings merge key by key, on a conflict
\* the value of a replaces the one of b
deep_merge(a, b) ==
    LET keep == {q \in DOMAIN b : \A p \in DOMAIN a : ~Conflicts(p, q)}
    IN  [p \in DOMAIN a \cup keep |-> IF p \in DOMAIN a THEN a[p] ELSE b[p]]

\* _deep_eval of lines 70-82 on the payload of a block: raises when an
\* expression does
DeepEvalRaises(payload, s) ==
    \E p \in DOMAIN payload : payload[p].expr /\ ~s.has_state

\* the dict _deep_eval returns
_deep_eval(payload, s) ==
    [p \in DOMAIN payload |-> IF payload[p].expr THEN Lit(s.state) ELSE payload[p]]

\* the payload _deep_eval leaves in the block: line 104 copies the top level of
\* the block, and lines 72-73 assign into the nested dicts themselves
AfterDeepEval(payload, s) ==
    [p \in DOMAIN payload |-> IF Len(p) > 1 THEN _deep_eval(payload, s)[p]
                                           ELSE payload[p]]

\* the path of an error, in a call that returns
NoPath == [id |-> <<>>, part |-> None]

RECURSIVE process_blocks(_, _, _, _, _)
RECURSIVE _process_block(_, _, _, _)

\* as _process_block, with a block whose $if is false taken as well
ProcessBlockIgnoresIf(c, data, s, id) ==
    IF GuardRaises(c.if_expr, s)
    THEN [c |-> c, data |-> data, ok |-> FALSE, events |-> <<>>,
          path |-> [id |-> id, part |-> "$if"]]
    ELSE LET eval_result == GuardValue(c.if_expr, s)
             recorded == IF c.if_expr # "none"
                         THEN [set |-> TRUE, v |-> eval_result]
                         ELSE c.last_if_eval
             event(contrib) ==
                 [id |-> id, guard |-> eval_result, fired |-> TRUE, contrib |-> contrib]
         IN  IF c.has_def
             THEN LET r == process_blocks(c.sub, 1, EmptyDict, s, id)
                  IN  [c |-> [c EXCEPT !.sub = r.blocks,
                                       !.last_if_eval = IF r.ok THEN recorded ELSE @],
                       data |-> deep_merge(r.data, data), ok |-> r.ok, path |-> r.path,
                       events |-> IF r.ok THEN r.events \o <<event(r.data)>>
                                         ELSE r.events]
             ELSE IF DeepEvalRaises(c.payload, s)
             THEN [c |-> c, data |-> data, ok |-> FALSE, events |-> <<>>,
                   path |-> [id |-> id, part |-> "payload"]]
             ELSE [c |-> [c EXCEPT !.payload = AfterDeepEval(c.payload, s),
                                   !.last_if_eval = recorded],
                   data |-> deep_merge(_deep_eval(c.payload, s), data), ok |-> TRUE, path |-> NoPath,
                   events |-> <<event(_deep_eval(c.payload, s))>>]

\* _process_block(c, data, path), lines 84-111: the block as the call leaves it,
\* the data, whether the call returned, and what the blocks did (id is the place
\* of the block: <<i>> in the $def of the template, <<i, j>> in the $def of
\* block i)
_process_block(c, data, s, id) ==
    IF GuardRaises(c.if_expr, s)
    THEN [c |-> c, data |-> data, ok |-> FALSE, events |-> <<>>,
          path |-> [id |-> id, part |-> "$if"]]
    ELSE LET eval_result == GuardValue(c.if_expr, s)
             fires == /\ eval_result # 0
                      /\ \/ "$onoff" \notin c.if_opts
                         \/ ~c.last_if_eval.set
                         \/ eval_result # c.last_if_eval.v
             recorded == IF c.if_expr # "none"
                         THEN [set |-> TRUE, v |-> eval_result]
                         ELSE c.last_if_eval
             event(fired, contrib) ==
                 [id |-> id, guard |-> eval_result, fired |-> fired,
                  contrib |-> contrib]
         IN  IF ~fires
             THEN [c |-> [c EXCEPT !.last_if_eval = recorded], data |-> data,
                   ok |-> TRUE, path |-> NoPath, events |-> <<event(FALSE, EmptyDict)>>]
             ELSE IF c.has_def
             THEN LET r == process_blocks(c.sub, 1, EmptyDict, s, id)
                  IN  [c |-> [c EXCEPT !.sub = r.blocks,
                                       !.last_if_eval = IF r.ok THEN recorded ELSE @],
                       data |-> deep_merge(r.data, data), ok |-> r.ok, path |-> r.path,
                       events |-> IF r.ok THEN r.events \o <<event(TRUE, r.data)>>
                                         ELSE r.events]
             ELSE IF DeepEvalRaises(c.payload, s)
             THEN [c |-> c, data |-> data, ok |-> FALSE, events |-> <<>>,
                   path |-> [id |-> id, part |-> "payload"]]
             ELSE [c |-> [c EXCEPT !.payload = AfterDeepEval(c.payload, s),
                                   !.last_if_eval = recorded],
                   data |-> deep_merge(_deep_eval(c.payload, s), data), ok |-> TRUE, path |-> NoPath,
                   events |-> <<event(TRUE, _deep_eval(c.payload, s))>>]

\* the loop of lines 119-121 from block i on: an exception ends it and leaves
\* the blocks before it as their calls left them
process_blocks(blocks, i, data, s, prefix) ==
    IF i > Len(blocks)
    THEN [blocks |-> blocks, data |-> data, ok |-> TRUE, path |-> NoPath, events |-> <<>>]
    ELSE LET r == _process_block(blocks[i], data, s, Append(prefix, i))
             done == [blocks EXCEPT ![i] = r.c]
         IN  IF ~r.ok
             THEN [blocks |-> done, data |-> data, ok |-> FALSE, events |-> r.events,
                   path |-> r.path]
             ELSE LET rest == process_blocks(done, i + 1, r.data, s, prefix)
                  IN  [rest EXCEPT !.events = r.events \o @]

\* process_conditional_dict(d, scope), lines 113-126
process_conditional_dict(d, s) ==
    IF d.def = "none"
    THEN [d |-> d, data |-> EmptyDict, ok |-> FALSE, events |-> <<>>,
          path |-> [id |-> <<>>, part |-> "$def"]]
    ELSE LET r == process_blocks(d.blocks, 1, EmptyDict, s, <<>>)
         IN  [d |-> [d EXCEPT !.blocks = r.blocks], data |-> r.data, ok |-> r.ok, path |-> r.path,
              events |-> r.events]

\* one call of line 147 with scope s
ProcessConditionalDict(s) ==
    /\ Len(eval_log) < MaxEvaluations
    /\ LET r == process_conditional_dict(template, s)
       IN  /\ template' = r.d
           /\ eval_log' = Append(eval_log,
                                 [scope |-> s, ok |-> r.ok,
                                  out |-> IF r.ok THEN r.data ELSE EmptyDict,
                                  events |-> r.events])
    /\ UNCHANGED <<as_written, write_empty, records_queue, records_backlog,
                   write_call, write_calls>>
    /\ UNCHANGED notTemplate

\* a write call that has not started
\* (before: the template as the items before the failing one left it)
NoWriteCall == [n |-> 0, status |-> None, path |-> NoPath, at |-> 0,
                before |-> DefaultTemplate]

\* the records of the calls of Writer.write: data.state is 1 or 2, or data has
\* no state
WriteScopes == {s \in TemplateScopes : s.has_state => s.state > 0}

WriteData == UNION {[1..n -> WriteScopes] : n \in 0..MaxWriteRecords}

\* where line 160 to 165 send data_out: is_healthy() is true, or it is false
\* and disable_backlog is false, or true
Routes == {"queue", "backlog", "nowhere"}

\* Writer.write, lines 144-152: the loop over data from item i on, with the
\* template d and data_out as the items before left them; the loop ends at the
\* first item whose process_conditional_dict raises
RECURSIVE prepare(_, _, _, _)
prepare(d, data, i, out) ==
    IF i > Len(data)
    THEN [d |-> d, data_out |-> out, ok |-> TRUE, path |-> NoPath, at |-> 0,
          before |-> DefaultTemplate]
    ELSE LET r == process_conditional_dict(d, data[i])
         IN  IF ~r.ok
             THEN [d |-> r.d, data_out |-> out, ok |-> FALSE, path |-> r.path,
                   at |-> i, before |-> d]
             ELSE prepare(r.d, data, i + 1,
                          IF r.data # EmptyDict \/ write_empty
                          THEN Append(out, r.data)
                          ELSE out)

\* as PutByWrite, with the items before the failing one put as well
PutSoFar(r) == r.data_out

\* what lines 160-165 put of the loop's result r: data_out if the loop and
\* lines 154-157 returned, nothing if one of them raised
PutByWrite(r) == IF r.ok THEN r.data_out ELSE <<>>

\* Writer.write(collector_id, data, writer_def, scope), lines 128-169, with the
\* template as writer_def; lines 154-157 raise IndexError with an empty data_out
TemplateWrite(data, route) ==
    /\ write_calls < MaxWriteCalls
    /\ write_calls' = write_calls + 1
    /\ IF Len(data) = 0
       THEN /\ write_call' = [NoWriteCall EXCEPT !.status = "empty"]
            /\ UNCHANGED <<template, records_queue, records_backlog>>
       ELSE \E r \in {prepare(template, data, 1, <<>>)} :
                /\ template' = r.d
                /\ write_call' =
                       [n |-> Len(data),
                        status |-> IF ~r.ok THEN "error"
                                   ELSE IF r.data_out = <<>> THEN "IndexError"
                                   ELSE route,
                        path |-> r.path, at |-> r.at, before |-> r.before]
                /\ records_queue' = IF route = "queue"
                                    THEN records_queue \o PutByWrite(r)
                                    ELSE records_queue
                /\ records_backlog' = IF route = "backlog" /\ PutByWrite(r) # <<>>
                                      THEN Append(records_backlog, PutByWrite(r))
                                      ELSE records_backlog
    /\ UNCHANGED <<eval_log, as_written, write_empty>>
    /\ UNCHANGED notTemplate

\* the templates of the writers whose calls of write are followed: no $def, one
\* block, or a list of two blocks; one more block has no guard and an
\* expression at the top level of its payload
WriteBlocks == Blocks \cup {Block("none", {}, <<"e">> :> Expr)}

WriteTemplates ==
    {[def |-> "none", blocks |-> <<>>]}
    \cup {[def |-> "dict", blocks |-> <<b>>] : b \in WriteBlocks}
    \cup {[def |-> "list", blocks |-> bs] : bs \in [1..2 -> WriteBlocks]}

WriterTemplateInitial(d, we) ==
    /\ template = d
    /\ eval_log = <<>>
    /\ as_written = d
    /\ write_empty = we
    /\ records_queue = <<>>
    /\ records_backlog = <<>>
    /\ write_call = NoWriteCall
    /\ write_calls = 0

TemplateInitial(d) == WriterTemplateInitial(d, FALSE)

NextTemplateWrite ==
    \E data \in WriteData, route \in Routes : TemplateWrite(data, route)

NextTemplate == \E s \in TemplateScopes : ProcessConditionalDict(s)

\* ------------------------------------------------------------ HTTP provider
\* providers/provider.py, HttpProvider, lines 75-135.  update holds self.lock
\* from its first line to its return or exception, so one call runs at a time.

notHttp == <<govVars, writerVars, threadVars, topicVars, sourceVars, cronVars,
             runVars, stateVars, templateVars, eventVars, healthVars>>

HttpConfigs == [init_url : BOOLEAN, init_max_age : {1}, max_age : 0..1]

DefaultHttpConfig == [init_url |-> FALSE, init_max_age |-> 1, max_age |-> 1]

\* r.status_code and r.content of the responses
Statuses == {200, 399, 400, 404, 500}

Contents == {"c1", "c2"}

NoTime == [set |-> FALSE, t |-> 0]

At(t) == [set |-> TRUE, t |-> t]

\* an update call that has not started
NoCall == [stale |-> FALSE, init |-> FALSE, gets |-> 0, statuses |-> <<>>,
           content |-> None, result |-> None]

\* the condition of line 105
Stale ==
    \/ ~_updated_time.set
    \/ http_data = None
    \/ now - _updated_time.t > http_config.max_age

\* the condition of init_session, lines 93-95
InitDue ==
    /\ http_config.init_url
    /\ \/ ~init_time.set
       \/ now - init_time.t > http_config.init_max_age

\* time passes between the calls
HttpTimePasses ==
    /\ hpc = "idle"
    /\ now < MaxClock
    /\ now' = now + 1
    /\ UNCHANGED <<http_config, init_time, _updated_time, http_data, num_retries, hpc,
                   http_call, http_calls>>
    /\ UNCHANGED notHttp

\* update(), lines 104-108 and 131-133: a fresh cache returns False; a stale one
\* runs init_session (whose request may fail, line 100) and enters the loop
HttpUpdate ==
    /\ hpc = "idle"
    /\ http_calls < MaxHttpCalls
    /\ http_calls' = http_calls + 1
    /\ IF Stale
       THEN /\ init_time' = IF InitDue THEN At(now) ELSE init_time
            /\ num_retries' = 0
            /\ hpc' = "get"
            /\ http_call' = [NoCall EXCEPT !.stale = TRUE, !.init = InitDue]
       ELSE /\ http_call' = [NoCall EXCEPT !.result = "False"]
            /\ UNCHANGED <<init_time, num_retries, hpc>>
    /\ UNCHANGED <<http_config, now, _updated_time, http_data>>
    /\ UNCHANGED notHttp

\* as HttpGet, with 404 retried like the other failures
HttpGetRetries404(status, content) ==
    /\ hpc = "get"
    /\ num_retries < 3
    /\ _updated_time' = At(now)
    /\ LET call == [http_call EXCEPT !.gets = @ + 1, !.statuses = Append(@, status)]
       IN  IF status >= 400
           THEN /\ num_retries' = num_retries + 1
                /\ IF num_retries + 1 = 3
                   THEN /\ hpc' = "idle"
                        /\ http_call' = [call EXCEPT !.result = "raised"]
                   ELSE /\ hpc' = "sleep"
                        /\ http_call' = call
                /\ UNCHANGED http_data
           ELSE /\ http_data' = content
                /\ hpc' = "idle"
                /\ http_call' = [call EXCEPT !.content = content, !.result = "True"]
                /\ UNCHANGED num_retries
    /\ UNCHANGED <<http_config, now, init_time, http_calls>>
    /\ UNCHANGED notHttp

\* one round of the loop, lines 109-128, whose GET is answered with status and
\* content
HttpGet(status, content) ==
    /\ hpc = "get"
    /\ num_retries < 3
    /\ _updated_time' = At(now)
    /\ LET call == [http_call EXCEPT !.gets = @ + 1, !.statuses = Append(@, status)]
       IN  IF status = 404
           THEN /\ hpc' = "idle"
                /\ http_call' = [call EXCEPT !.result = "raised"]
                /\ UNCHANGED <<http_data, num_retries>>
           ELSE IF status >= 400
           THEN /\ num_retries' = num_retries + 1
                /\ IF num_retries + 1 = 3
                   THEN /\ hpc' = "idle"
                        /\ http_call' = [call EXCEPT !.result = "raised"]
                   ELSE /\ hpc' = "sleep"
                        /\ http_call' = call
                /\ UNCHANGED http_data
           ELSE /\ http_data' = content
                /\ hpc' = "idle"
                /\ http_call' = [call EXCEPT !.content = content, !.result = "True"]
                /\ UNCHANGED num_retries
    /\ UNCHANGED <<http_config, now, init_time, http_calls>>
    /\ UNCHANGED notHttp

\* self.session.get(self.url) of line 111 raises (no connection): the exception
\* leaves update after line 110
HttpGetRaises ==
    /\ hpc = "get"
    /\ num_retries < 3
    /\ _updated_time' = At(now)
    /\ hpc' = "idle"
    /\ http_call' = [http_call EXCEPT !.gets = @ + 1, !.result = "raised"]
    /\ UNCHANGED <<http_config, now, init_time, http_data, num_retries, http_calls>>
    /\ UNCHANGED notHttp

\* time.sleep(1), line 124
HttpSleep ==
    /\ hpc = "sleep"
    /\ now' = now + 1
    /\ hpc' = "get"
    /\ UNCHANGED <<http_config, init_time, _updated_time, http_data, num_retries,
                   http_call, http_calls>>
    /\ UNCHANGED notHttp

\* HttpProvider.__init__, lines 80-89, at time 0: init_session runs once
HttpInitial(config) ==
    /\ http_config = config
    /\ now = 0
    /\ init_time = IF config.init_url THEN At(0) ELSE NoTime
    /\ _updated_time = NoTime
    /\ http_data = None
    /\ num_retries = 0
    /\ hpc = "idle"
    /\ http_call = NoCall
    /\ http_calls = 0

NextHttp ==
    \/ HttpTimePasses
    \/ HttpUpdate
    \/ \E status \in Statuses : \E content \in Contents : HttpGet(status, content)
    \/ HttpGetRaises
    \/ HttpSleep

\* ---------------------------------------------------------- event collector
\* collectors/collector.py, EventCollector.worker, lines 158-181, and
\* BaseCollector.write, lines 86-97.  Each collector has its own queue, which its
\* worker subscribes to the topic.

notEvent == <<govVars, writerVars, threadVars, sourceVars, cronVars, runVars,
              stateVars, templateVars, httpVars, healthVars>>

EventCollectors == {"event1", "event2"}

\* self.queue of a collector
QueueOf(c) == IF c = "event1" THEN "q1" ELSE "q2"

\* worker, lines 163-164: s.subscribe(self.queue)
EventSubscribe(c) ==
    /\ epc[c] = "start"
    /\ topic' = [topic EXCEPT !.subscribers = Append(@, QueueOf(c))]
    /\ subscribed_at' = [subscribed_at EXCEPT ![QueueOf(c)] = Len(topic.history)]
    /\ epc' = [epc EXCEPT ![c] = "get"]
    /\ UNCHANGED <<sub_queues, ppc, published>>
    /\ UNCHANGED <<event_writers, events, taken, received>>
    /\ UNCHANGED notEvent

\* worker, lines 167-172: one queue.get(block=False); queue.Empty ends the
\* draining, and line 174 goes on with the events or with the wait
EventGet(c) ==
    /\ epc[c] = "get"
    /\ LET q == sub_queues[QueueOf(c)]
       IN  IF q # <<>>
           THEN /\ events' = [events EXCEPT ![c] = Append(@, Head(q))]
                /\ taken' = [taken EXCEPT ![c] = Append(@, Head(q))]
                /\ sub_queues' = [sub_queues EXCEPT ![QueueOf(c)] = Tail(q)]
                /\ UNCHANGED epc
           ELSE /\ epc' = [epc EXCEPT ![c] = IF events[c] # <<>> THEN "write"
                                                                 ELSE "wait"]
                /\ UNCHANGED <<events, taken, sub_queues>>
    /\ UNCHANGED <<topic, ppc, published, subscribed_at>>
    /\ UNCHANGED <<event_writers, received>>
    /\ UNCHANGED notEvent

\* worker, lines 176-178: self.write(self.prepare_data(...), ...) for the next
\* event, or events = [] after the last.  BaseCollector.write calls
\* w["__writer"].write(..., ignore_healthcheck=ignore_healthcheck) for each of
\* its writers (line 97); Writer.write (writer.py line 128) has no such
\* parameter, so the call raises TypeError, which nothing in worker catches:
\* the thread ends
EventWrite(c) ==
    /\ epc[c] = "write"
    /\ IF events[c] # <<>>
       THEN IF event_writers # {}
            THEN /\ epc' = [epc EXCEPT ![c] = "failed"]
                 /\ UNCHANGED events
            ELSE /\ events' = [events EXCEPT ![c] = Tail(@)]
                 /\ UNCHANGED epc
       ELSE /\ epc' = [epc EXCEPT ![c] = "wait"]
            /\ UNCHANGED events
    /\ UNCHANGED <<event_writers, taken, received>>
    /\ UNCHANGED topicVars
    /\ UNCHANGED notEvent

\* worker, lines 179-181: exit_event.wait(1) returns
EventWait(c) ==
    /\ epc[c] = "wait"
    /\ epc' = [epc EXCEPT ![c] = IF exit_event THEN "done" ELSE "get"]
    /\ UNCHANGED <<event_writers, events, taken, received>>
    /\ UNCHANGED topicVars
    /\ UNCHANGED notEvent

\* a thread of the event source publishes d to the topic
EventPublish(d) ==
    /\ Len(topic.history) < MaxEvents
    /\ UpdateCall("u1", d)

\* EventCollector.__init__, lines 139-156, of collectors with the writers ws
EventInitial(ws) ==
    /\ event_writers = ws
    /\ epc = [c \in EventCollectors |-> "start"]
    /\ events = [c \in EventCollectors |-> <<>>]
    /\ taken = [c \in EventCollectors |-> <<>>]
    /\ received = [c \in EventCollectors |-> <<>>]

NextEvent ==
    \/ \E c \in EventCollectors :
        \/ EventSubscribe(c)
        \/ EventGet(c)
        \/ EventWrite(c)
        \/ EventWait(c)
    \/ \E d \in Records : EventPublish(d)
    \/ UpdateEnters("u1")
    \/ UpdateSets("u1")
    \/ UpdateNotifies("u1")
    \/ UpdatePuts("u1")
    \/ SetExit

\* -------------------------------------------------------- health of the writer
\* writers/writer.py, Writer.is_healthy, lines 53-64, line by line: the worker
\* calls it at lines 183 and 213 and every collector thread at line 160 of
\* write(), and it takes no lock.

notHealth == <<govVars, writerVars, threadVars, topicVars, sourceVars, cronVars,
               runVars, stateVars, templateVars, httpVars, eventVars>>

HealthThreads == {"worker", "collector"}

\* a thread that is not in is_healthy
Outside == [at |-> "idle", n |-> 0, up |-> FALSE]

\* time passes
HealthTimePasses ==
    /\ clock < MaxHealthClock
    /\ clock' = clock + 1
    /\ UNCHANGED <<healthcheck_interval, last_healthcheck, _is_healthy, hpos, may_write,
                   probes, marked>>
    /\ UNCHANGED do_write_calls
    /\ UNCHANGED notHealth

\* line 54, the condition: when it is false, line 64 returns self._is_healthy
HealthTest(t) ==
    /\ hpos[t].at = "idle"
    /\ IF ~_is_healthy /\ clock - last_healthcheck > healthcheck_interval
       THEN /\ Len(probes) < MaxProbes
            /\ hpos' = [hpos EXCEPT ![t].at = "stamp"]
            /\ UNCHANGED may_write
       ELSE /\ may_write' = IF t = "worker" THEN _is_healthy ELSE may_write
            /\ UNCHANGED hpos
    /\ UNCHANGED <<healthcheck_interval, clock, last_healthcheck, _is_healthy, probes,
                   marked>>
    /\ UNCHANGED do_write_calls
    /\ UNCHANGED notHealth

\* line 56: self.last_healthcheck = time.time()
HealthStamp(t) ==
    /\ hpos[t].at = "stamp"
    /\ last_healthcheck' = clock
    /\ probes' = Append(probes, [at |-> clock, by |-> t, healthy |-> _is_healthy])
    /\ hpos' = [hpos EXCEPT ![t].at = "healthcheck", ![t].n = Len(probes) + 1]
    /\ UNCHANGED <<healthcheck_interval, clock, _is_healthy, may_write, marked>>
    /\ UNCHANGED do_write_calls
    /\ UNCHANGED notHealth

\* line 57: self.healthcheck() returns (up) or raises
healthcheck(t, up) ==
    /\ hpos[t].at = "healthcheck"
    /\ hpos' = [hpos EXCEPT ![t].at = "assign", ![t].up = up]
    /\ UNCHANGED <<healthcheck_interval, clock, last_healthcheck, _is_healthy, may_write,
                   probes, marked>>
    /\ UNCHANGED do_write_calls
    /\ UNCHANGED notHealth

\* line 58 or line 63, the assignment of self._is_healthy, and the return of
\* line 64
HealthAssign(t) ==
    /\ hpos[t].at = "assign"
    /\ _is_healthy' = hpos[t].up
    /\ may_write' = IF t = "worker" THEN hpos[t].up ELSE may_write
    /\ marked' = IF hpos[t].up THEN -1 ELSE marked
    /\ hpos' = [hpos EXCEPT ![t] = Outside]
    /\ UNCHANGED <<healthcheck_interval, clock, last_healthcheck, probes>>
    /\ UNCHANGED do_write_calls
    /\ UNCHANGED notHealth

\* the worker, after is_healthy() returned True at line 183 or 213, calls
\* do_write (line 196, or line 299 in Backlog.process) and it returns
HealthWriteOk ==
    /\ hpos["worker"].at = "idle"
    /\ may_write
    /\ do_write_calls' = do_write_calls \cup {_is_healthy}
    /\ UNCHANGED <<healthcheck_interval, clock, last_healthcheck, _is_healthy, hpos,
                   may_write, probes, marked>>
    /\ UNCHANGED notHealth

\* the worker, after is_healthy() returned True: do_write fails and line 204
\* (a queue batch, HealthCheckException) or line 307 (a backlog batch) sets
\* self._is_healthy = False
HealthWriteFails ==
    /\ hpos["worker"].at = "idle"
    /\ may_write
    /\ do_write_calls' = do_write_calls \cup {_is_healthy}
    /\ _is_healthy' = FALSE
    /\ may_write' = FALSE
    /\ marked' = Len(probes)
    /\ UNCHANGED <<healthcheck_interval, clock, last_healthcheck, hpos, probes>>
    /\ UNCHANGED notHealth

\* Writer.__init__, lines 42-43
HealthInitial(interval) ==
    /\ healthcheck_interval = interval
    /\ clock = 1
    /\ last_healthcheck = 0
    /\ _is_healthy = FALSE
    /\ hpos = [t \in HealthThreads |-> Outside]
    /\ may_write = FALSE
    /\ probes = <<>>
    /\ marked = -1
    /\ do_write_calls = {}

NextHealth ==
    \/ HealthTimePasses
    \/ \E t \in HealthThreads :
        \/ HealthTest(t)
        \/ HealthStamp(t)
        \/ \E up \in BOOLEAN : healthcheck(t, up)
        \/ HealthAssign(t)
    \/ HealthWriteOk
    \/ HealthWriteFails

InitGov ==
    /\ \E pause \in PauseConfigs, test_mode \in BOOLEAN : GovInitial(pause, test_mode)
    /\ WriterInitial(DefaultWriterConfig)
    /\ ThreadsInitial
    /\ TopicInitial("EventSource")
    /\ SourceInitial
    /\ CronInitial
    /\ RunInitial(DefaultScope)
    /\ StateInitial
    /\ TemplateInitial(DefaultTemplate)
    /\ HttpInitial(DefaultHttpConfig)
    /\ EventInitial({})
    /\ HealthInitial(1)

SpecGov == InitGov /\ [][NextGov]_vars

InitWriter ==
    /\ \E config \in WriterConfigs : WriterInitial(config)
    /\ GovInitial(DefaultPause, FALSE)
    /\ ThreadsInitial
    /\ TopicInitial("EventSource")
    /\ SourceInitial
    /\ CronInitial
    /\ RunInitial(DefaultScope)
    /\ StateInitial
    /\ TemplateInitial(DefaultTemplate)
    /\ HttpInitial(DefaultHttpConfig)
    /\ EventInitial({})
    /\ HealthInitial(1)

NextWriter ==
    \/ \E c \in Collectors :
        \/ CollectorWrite(c)
        \/ CollectorPutQueue(c)
        \/ CollectorPutBacklog(c)
        \/ CollectorAppendBacklog(c)
        \/ CollectorExit(c)
    \/ SetExit
    \/ Tick
    \/ WorkerLoop
    \/ WorkerProcessQueue
    \/ WorkerWriteOk
    \/ WorkerWriteUnhealthy
    \/ WorkerWriteError
    \/ WorkerAppendBacklog
    \/ WorkerCheckBacklog
    \/ BacklogPeek
    \/ BacklogWriteOk
    \/ BacklogAssign
    \/ BacklogWriteFails
    \/ WorkerFinalDrain

SpecWriter == InitWriter /\ [][NextWriter]_vars

\* the runs with conditional writer definitions: the result of a record can
\* be empty, write_empty is set or not
ConditionalConfigs ==
    [disable_backlog : BOOLEAN, test : {FALSE}, batch_size : {MaxBatch},
     write_empty : BOOLEAN, writer_def : {"conditional"}, healthcheck : {BOOLEAN},
     do_write : {Outcomes}]

InitWrite ==
    /\ \E config \in ConditionalConfigs : WriterInitial(config)
    /\ GovInitial(DefaultPause, FALSE)
    /\ ThreadsInitial
    /\ TopicInitial("EventSource")
    /\ SourceInitial
    /\ CronInitial
    /\ RunInitial(DefaultScope)
    /\ StateInitial
    /\ TemplateInitial(DefaultTemplate)
    /\ HttpInitial(DefaultHttpConfig)
    /\ EventInitial({})
    /\ HealthInitial(1)

SpecWrite == InitWrite /\ [][NextWriter]_vars

\* the runs of the recovery scenario: one collector feeds the writer, the
\* backlog is enabled, the probe succeeds whenever it is made, and do_write
\* returns or raises HealthCheckException until the backend recovers
RecoveryConfigs ==
    [disable_backlog : {FALSE}, test : {FALSE}, batch_size : 1..MaxBatch,
     write_empty : {TRUE}, writer_def : {"plain"}, healthcheck : {{TRUE}},
     do_write : {{"ok", "HealthCheckException"}}]

InitRecovery ==
    /\ \E config \in RecoveryConfigs : WriterInitial(config)
    /\ GovInitial(DefaultPause, FALSE)
    /\ ThreadsInitial
    /\ TopicInitial("EventSource")
    /\ SourceInitial
    /\ CronInitial
    /\ RunInitial(DefaultScope)
    /\ StateInitial
    /\ TemplateInitial(DefaultTemplate)
    /\ HttpInitial(DefaultHttpConfig)
    /\ EventInitial({})
    /\ HealthInitial(1)

\* a step of a write() call that has passed is_healthy
FeederSteps ==
    \/ CollectorPutQueue("c1")
    \/ CollectorPutBacklog("c1")
    \/ CollectorAppendBacklog("c1")

\* a step of the writer's worker thread before the termination signal
WorkerSteps ==
    \/ WorkerLoop
    \/ WorkerProcessQueue
    \/ WorkerWriteOk
    \/ WorkerWriteUnhealthy
    \/ WorkerAppendBacklog
    \/ WorkerCheckBacklog
    \/ BacklogPeek
    \/ BacklogWriteOk
    \/ BacklogAssign
    \/ BacklogWriteFails

NextRecovery ==
    \/ CollectorWrite("c1")
    \/ FeederSteps
    \/ BackendRecovers
    \/ Tick
    \/ WorkerSteps

\* the threads are scheduled, time passes, the backend recovers
SpecRecovery ==
    /\ InitRecovery
    /\ [][NextRecovery]_vars
    /\ WF_vars(FeederSteps)
    /\ WF_vars(WorkerSteps)
    /\ WF_vars(Tick)
    /\ WF_vars(BackendRecovers)

InitGovThreads ==
    /\ \E pause \in PauseConfigs : GovInitial(pause, FALSE)
    /\ WriterInitial(DefaultWriterConfig)
    /\ ThreadsInitial
    /\ TopicInitial("EventSource")
    /\ SourceInitial
    /\ CronInitial
    /\ RunInitial(DefaultScope)
    /\ StateInitial
    /\ TemplateInitial(DefaultTemplate)
    /\ HttpInitial(DefaultHttpConfig)
    /\ EventInitial({})
    /\ HealthInitial(1)

SpecGovThreads == InitGovThreads /\ [][NextGovThreads]_vars

InitTopic ==
    /\ \E owner \in Owners : TopicInitial(owner)
    /\ SourceInitial
    /\ CronInitial
    /\ GovInitial(DefaultPause, FALSE)
    /\ WriterInitial(DefaultWriterConfig)
    /\ ThreadsInitial
    /\ RunInitial(DefaultScope)
    /\ StateInitial
    /\ TemplateInitial(DefaultTemplate)
    /\ HttpInitial(DefaultHttpConfig)
    /\ EventInitial({})
    /\ HealthInitial(1)

SpecTopic == InitTopic /\ [][NextTopic]_vars

InitSource ==
    /\ SourceInitial
    /\ CronInitial
    /\ GovInitial(DefaultPause, FALSE)
    /\ WriterInitial(DefaultWriterConfig)
    /\ ThreadsInitial
    /\ TopicInitial("EventSource")
    /\ RunInitial(DefaultScope)
    /\ StateInitial
    /\ TemplateInitial(DefaultTemplate)
    /\ HttpInitial(DefaultHttpConfig)
    /\ EventInitial({})
    /\ HealthInitial(1)

SpecSource == InitSource /\ [][NextSource]_vars

InitCron ==
    /\ GovInitial(DefaultPause, FALSE)
    /\ WriterInitial(DefaultWriterConfig)
    /\ ThreadsInitial
    /\ TopicInitial("EventSource")
    /\ SourceInitial
    /\ CronInitial
    /\ RunInitial(DefaultScope)
    /\ StateInitial
    /\ TemplateInitial(DefaultTemplate)
    /\ HttpInitial(DefaultHttpConfig)
    /\ EventInitial({})
    /\ HealthInitial(1)

\* the worker threads are scheduled
SpecCron ==
    /\ InitCron
    /\ [][NextCron]_vars
    /\ \A c \in Collectors : WF_vars(CronSteps(c))

InitRun ==
    /\ GovInitial(DefaultPause, FALSE)
    /\ WriterInitial(DefaultWriterConfig)
    /\ ThreadsInitial
    /\ TopicInitial("EventSource")
    /\ SourceInitial
    /\ CronInitial
    /\ \E config \in Scopes : RunInitial(config)
    /\ StateInitial
    /\ TemplateInitial(DefaultTemplate)
    /\ HttpInitial(DefaultHttpConfig)
    /\ EventInitial({})
    /\ HealthInitial(1)

SpecRun == InitRun /\ [][NextRun]_vars

InitStart ==
    /\ GovInitial(DefaultPause, FALSE)
    /\ WriterInitial(DefaultWriterConfig)
    /\ ThreadsInitial
    /\ TopicInitial("EventSource")
    /\ SourceInitial
    /\ CronInitial
    /\ StartInitial([writers |-> <<"writer1">>, providers |-> <<>>,
                     collectors |-> <<"event1">>])
    /\ StateInitial
    /\ TemplateInitial(DefaultTemplate)
    /\ HttpInitial(DefaultHttpConfig)
    /\ EventInitial({})
    /\ HealthInitial(1)

SpecStart == InitStart /\ [][NextStart]_vars

InitState ==
    /\ GovInitial(DefaultPause, FALSE)
    /\ WriterInitial(DefaultWriterConfig)
    /\ ThreadsInitial
    /\ TopicInitial("EventSource")
    /\ SourceInitial
    /\ CronInitial
    /\ RunInitial(DefaultScope)
    /\ StateInitial
    /\ TemplateInitial(DefaultTemplate)
    /\ HttpInitial(DefaultHttpConfig)
    /\ EventInitial({})
    /\ HealthInitial(1)

SpecState == InitState /\ [][NextState]_vars

InitTemplate ==
    /\ GovInitial(DefaultPause, FALSE)
    /\ WriterInitial(DefaultWriterConfig)
    /\ ThreadsInitial
    /\ TopicInitial("EventSource")
    /\ SourceInitial
    /\ CronInitial
    /\ RunInitial(DefaultScope)
    /\ StateInitial
    /\ \E d \in Templates : TemplateInitial(d)
    /\ HttpInitial(DefaultHttpConfig)
    /\ EventInitial({})
    /\ HealthInitial(1)

SpecTemplate == InitTemplate /\ [][NextTemplate]_vars

InitTemplateWrite ==
    /\ GovInitial(DefaultPause, FALSE)
    /\ WriterInitial(DefaultWriterConfig)
    /\ ThreadsInitial
    /\ TopicInitial("EventSource")
    /\ SourceInitial
    /\ CronInitial
    /\ RunInitial(DefaultScope)
    /\ StateInitial
    /\ \E d \in WriteTemplates, we \in BOOLEAN : WriterTemplateInitial(d, we)
    /\ HttpInitial(DefaultHttpConfig)
    /\ EventInitial({})
    /\ HealthInitial(1)
SpecTemplateWrite == InitTemplateWrite /\ [][NextTemplateWrite]_vars

InitHttp ==
    /\ GovInitial(DefaultPause, FALSE)
    /\ WriterInitial(DefaultWriterConfig)
    /\ ThreadsInitial
    /\ TopicInitial("EventSource")
    /\ SourceInitial
    /\ CronInitial
    /\ RunInitial(DefaultScope)
    /\ StateInitial
    /\ TemplateInitial(DefaultTemplate)
    /\ \E config \in HttpConfigs : HttpInitial(config)
    /\ EventInitial({})
    /\ HealthInitial(1)

SpecHttp == InitHttp /\ [][NextHttp]_vars

InitEvent ==
    /\ GovInitial(DefaultPause, FALSE)
    /\ WriterInitial(DefaultWriterConfig)
    /\ ThreadsInitial
    /\ \E owner \in Owners : TopicInitial(owner)
    /\ SourceInitial
    /\ CronInitial
    /\ RunInitial(DefaultScope)
    /\ StateInitial
    /\ TemplateInitial(DefaultTemplate)
    /\ HttpInitial(DefaultHttpConfig)
    /\ \E ws \in SUBSET {"writer1"} : EventInitial(ws)
    /\ HealthInitial(1)

SpecEvent == InitEvent /\ [][NextEvent]_vars

InitHealth ==
    /\ GovInitial(DefaultPause, FALSE)
    /\ WriterInitial(DefaultWriterConfig)
    /\ ThreadsInitial
    /\ TopicInitial("EventSource")
    /\ SourceInitial
    /\ CronInitial
    /\ RunInitial(DefaultScope)
    /\ StateInitial
    /\ TemplateInitial(DefaultTemplate)
    /\ HttpInitial(DefaultHttpConfig)
    /\ EventInitial({})
    /\ \E interval \in 0..1 : HealthInitial(interval)

SpecHealth == InitHealth /\ [][NextHealth]_vars

\* --------------------------------------------------------- writer: claims

\* the envelopes write() has accepted: those of the records that are not
\* empty, and of the empty ones if write_empty
Accepted == {e \in 1..(next_env - 1) : e \notin empty \/ writer_config.write_empty}

\* the occurrences of an envelope in a sequence, and in the sequences of a function
Occ(seq, e) == Cardinality({i \in 1..Len(seq) : seq[i] = e})

RECURSIVE SumOcc(_, _, _)
SumOcc(S, F, e) ==
    IF S = {} THEN 0
    ELSE LET x == CHOOSE y \in S : TRUE
         IN  Occ(F[x], e) + SumOcc(S \ {x}, F, e)

\* the number of places that hold an envelope: the write() calls, the queue, the
\* batch taken off the queue, the backlog files, the backend, the given up
Places(e) ==
    SumOcc(Collectors, data_out, e)
    + Occ(queue, e)
    + (IF wpc \in {"write", "final_write"} THEN Occ(batch, e) ELSE 0)
    + SumOcc(DOMAIN disk, disk, e)
    + Occ(written, e)
    + (IF e \in DOMAIN dropped THEN 1 ELSE 0)

Delivered(e) == Occ(written, e)
InBacklog(e) == \E f \in DOMAIN disk : e \in Range(disk[f])
InTransit(e) ==
    \/ \E c \in Collectors : e \in Range(data_out[c])
    \/ e \in Range(queue)
    \/ wpc \in {"write", "final_write"} /\ e \in Range(batch)

\* C1 as stated: every envelope accepted by write() (and not refused because the
\* backlog is disabled or the run is a test run) that is no longer on its way
\* was passed to a successful do_write exactly once or is in a backlog file,
\* whatever do_write's outcomes were.
C1_DeliveredOrBacklogged ==
    \A e \in Accepted :
        /\ Delivered(e) <= 1
        /\ (~InTransit(e)
              /\ ~(e \in DOMAIN dropped /\ dropped[e] \in {"disable_backlog", "test"}))
            => (Delivered(e) = 1 \/ InBacklog(e))

\* C1 (amended): every accepted envelope is at every moment in exactly one
\* place: on its way (the write() call, the queue, the batch the worker took off
\* the queue), in one backlog file, passed to one successful do_write, or given
\* up; outside test mode and with the backlog enabled an envelope is given up
\* only when do_write of its queue batch raised an exception other than
\* HealthCheckException.
C1_Conservation ==
    \A e \in Accepted :
        /\ Places(e) = 1
        /\ e \in DOMAIN dropped =>
            /\ dropped[e] = "test" => writer_config.test
            /\ dropped[e] = "disable_backlog" => writer_config.disable_backlog

\* C1's case: one envelope discarded, and one that was in the backlog has just
\* been delivered by the replay of its file
C1_Witness ==
    /\ ~writer_config.test /\ ~writer_config.disable_backlog
    /\ wrote = [by |-> "backlog", outcome |-> "ok"]
    /\ \E e1, e2 \in Accepted :
        /\ Delivered(e1) = 1 /\ written[Len(written)] = e1
        /\ e2 \in DOMAIN dropped /\ dropped[e2] = "discarded"

\* the supervisor has joined the workers (run.py lines 56-58)
Joined == wpc = "done" /\ \A c \in Collectors : cpc[c] = "done"

\* C2: after a graceful shutdown the writer's queue is empty and every accepted
\* envelope that was not delivered (nor given up before) is in the backlog, for
\* every interleaving of the collectors' write() calls with the worker's end.
C2_ShutdownLeavesNothingQueued ==
    Joined =>
        /\ queue = <<>>
        /\ \A e \in Accepted \ DOMAIN dropped : Delivered(e) = 1 \/ InBacklog(e)

\* -------------------------------------------------- writer: claims (2)

\* the envelopes a write() call has just accepted
NewlyAccepted == {e \in Accepted' : e >= next_env}

\* a step of write() at line 162 (one queue.put) and at line 165 (backlog.put
\* writes the file)
PutsOnQueue(c) == cpc[c] = "put_queue" /\ data_out'[c] # data_out[c]
PutsInBacklog(c) == cpc[c] = "put_backlog" /\ data_out'[c] # data_out[c]

\* the step of backlog.put that appends the file it has written to all_files
ListsInBacklog(c) == cpc[c] = "append_backlog" /\ cpc'[c] # cpc[c]

\* a new backlog file holds the items
Persisted(items) ==
    \E f \in DOMAIN disk' \ DOMAIN disk :
        /\ disk'[f] = items
        /\ DOMAIN disk' = DOMAIN disk \cup {f}
        /\ \A g \in DOMAIN disk : disk'[g] = disk[g]

\* the decision of write(): healthy' is what is_healthy() returned
RoutedByHealth ==
    (next_env' > next_env /\ NewlyAccepted # {}) =>
        /\ queue' = queue /\ disk' = disk
        /\ healthy' =>
            \E c \in Collectors :
                /\ cpc[c] = "loop" /\ cpc'[c] = "put_queue"
                /\ Range(data_out'[c]) = NewlyAccepted
        /\ (~healthy' /\ ~writer_config.disable_backlog) =>
            \E c \in Collectors :
                /\ cpc[c] = "loop" /\ cpc'[c] = "put_backlog"
                /\ Range(data_out'[c]) = NewlyAccepted
        /\ (~healthy' /\ writer_config.disable_backlog) =>
            /\ cpc' = cpc /\ data_out' = data_out
            /\ \A e \in NewlyAccepted : Places(e)' = 1 /\ e \in DOMAIN dropped'

\* the healthy route: the envelopes go on the queue, one by one, and not into
\* the backlog
QueuedNotPersisted ==
    \A c \in Collectors : PutsOnQueue(c) =>
        /\ queue' = Append(queue, Head(data_out[c]))
        /\ data_out'[c] = Tail(data_out[c])
        /\ disk' = disk /\ all_files' = all_files

\* C15 as stated: write() routes each accepted envelope by the health that
\* is_healthy() returns in the call: healthy, the envelope is put on the queue
\* and not in the backlog; unhealthy, it is persisted as a backlog batch and
\* not queued, unless disable_backlog is set: then it is neither.
C15_RoutedByHealth_AnyMode ==
    [][/\ RoutedByHealth
       /\ QueuedNotPersisted
       /\ \A c \in Collectors : PutsInBacklog(c) =>
            /\ queue' = queue
            /\ Persisted(data_out[c])]_vars

\* C15 (amended): outside test mode write() routes each accepted envelope by
\* the health that is_healthy() returns in the call: healthy, the envelope is
\* put on the queue and not in the backlog; unhealthy, it is persisted as one
\* backlog batch and not queued, unless disable_backlog is set: then it is
\* neither. In test mode the healthy route is the same and the unhealthy route
\* neither queues nor persists the envelope.
C15_RoutedByHealth ==
    [][/\ RoutedByHealth
       /\ QueuedNotPersisted
       /\ \A c \in Collectors : PutsInBacklog(c) =>
            /\ queue' = queue
            /\ IF writer_config.test
               THEN disk' = disk /\ all_files' = all_files
               ELSE Persisted(data_out[c])
       /\ \A c \in Collectors : ListsInBacklog(c) =>
            /\ all_files' = Append(all_files, putting[c])
            /\ queue' = queue /\ disk' = disk]_vars

\* C15's case: a write() call made while the writer was unhealthy is about to
\* persist its envelope, one made after the probe succeeded is about to queue
\* its envelope
C15_Witness ==
    /\ ~writer_config.test /\ ~writer_config.disable_backlog
    /\ \E c, d \in Collectors :
        /\ cpc[c] = "put_backlog" /\ cpc[d] = "put_queue"
        /\ data_out[c] # <<>> /\ data_out[d] # <<>>

\* ------------------------------------------------------- governor: claims

\* the last invocation of wrapper and the PerfState it left
Invoked == ret.key # None
Last == perf_objects[ret.key]
\* the last invocation executed the wrapped call and the governor evaluated it
Evaluates == Invoked /\ ret.outcome \in {"returned", "OperationalError"} /\ ~ret.raised

Min(a, b) == IF a < b THEN a ELSE b

IsPrefix(s, t) == Len(s) <= Len(t) /\ \A i \in 1..Len(s) : s[i] = t[i]

\* C3: for every PerfKey and every configuration, cycles_to_wait never exceeds
\* max_waiting_cycles.
C3_PauseWithinMax ==
    \A k \in DOMAIN perf_objects :
        perf_objects[k].cycles_to_wait <= performance_pause.max_waiting_cycles

\* C4: a faulty execution that sets the pause to n is followed by exactly n
\* skipped invocations (the remaining pause is n minus the invocations skipped
\* since; an invocation is skipped exactly when it finds a pause remaining,
\* returns null and takes one cycle off the pause), so invocation n+1 executes.
C4_PauseSkipsExactly ==
    \A k \in DOMAIN perf_objects :
        /\ pausing[k].skipped <= pausing[k].n
        /\ perf_objects[k].cycles_to_wait = pausing[k].n - pausing[k].skipped
        /\ ret.key = k =>
            /\ (ret.outcome = "skipped") <=> (ret.waiting > 0)
            /\ ret.outcome = "skipped" =>
                /\ ret.result.isNone /\ ~ret.raised
                /\ perf_objects[k].cycles_to_wait = ret.waiting - 1

\* C4's case: duration_cycles = 2 without backoff; call 1 is slow, calls 2 and 3
\* are skipped, call 4 runs, is slow again and pauses 3 cycles.
C4_Witness ==
    /\ performance_pause = [running_time |-> 1, duration_cycles |-> 2,
                            exponential_backoff |-> FALSE, max_waiting_cycles |-> 5]
    /\ Invoked /\ ret.outcome = "returned"
    /\ streak[ret.key] = <<2, 3>>
    /\ perf_topic.history = 4
    /\ Last.reason_to_wait = 2 /\ Last.cycles_to_wait = 3

ReasonMatchesFault(p) ==
    (p.reason_to_wait = 0) <=>
        (p.last_error = None
           /\ p.last_running_time <= performance_pause.running_time)

\* C8 as stated: after every invocation, executed or skipped, reason_to_wait = 0
\* if and only if last_error is null and the last running time is at most
\* running_time.
C8_ReasonIffFault_AnyInvocation == Invoked => ReasonMatchesFault(Last)

\* C8 (amended): after every invocation that executed the wrapped call and
\* returned to its caller, reason_to_wait = 0 if and only if last_error is null
\* and the last running time is at most running_time.
C8_ReasonIffFault == Evaluates => ReasonMatchesFault(Last)

\* C8's case: a good execution after a streak of faulty ones
C8_Witness ==
    /\ Evaluates /\ ret.outcome = "returned" /\ ret.counter > 0
    /\ Last.reason_to_wait = 0 /\ Last.last_error = None

PublishedFor(k) ==
    /\ perf_topic'.history = perf_topic.history + 1
    /\ perf_topic'.topic_id = <<"yamc/performance/providers", component_id>>
    /\ perf_topic'.data.wait_cycles = perf_objects'[k].cycles_to_wait
    /\ perf_topic'.data.reason_to_wait = perf_objects'[k].reason_to_wait

C11_Serialized ==
    \A k \in DOMAIN perf_objects :
        /\ perf_objects[k].cycles_to_wait >= 0
        /\ \A t \in Threads :
            (tpc[t].at = "call" /\ tpc[t].key = k) => perf_objects[k].cycles_to_wait = 0

\* ----------------------------------------------------------- topic: claims

\* the envelopes of update n on the queue q
EnvelopesOf(q, n) == {i \in 1..Len(sub_queues[q]) : sub_queues[q][i].of = n}

\* no update is under way
NoUpdating == \A u \in Publishers : ppc[u].at \in {"idle", "lock"}

\* C12: for every topic and every sequence of subscribe and update calls, each
\* update(d) appends d to history and puts exactly one envelope for d on every
\* subscribed queue: once no update is under way, every record of history has
\* one envelope on every queue that was subscribed before it, and no queue ever
\* holds two envelopes of one update.
C12_OneDeliveryPerUpdate ==
    \A q \in Queues : \A n \in 1..Len(topic.history) :
        /\ Cardinality(EnvelopesOf(q, n)) <= 1
        /\ (NoUpdating /\ subscribed_at[q] >= 0 /\ subscribed_at[q] < n)
              => Cardinality(EnvelopesOf(q, n)) = 1

\* C13: with several threads publishing concurrently to one topic, the updates
\* are totally ordered: history holds the records in the order of the updates,
\* the envelopes of every subscriber queue are in that order, and each envelope
\* carries the time and the data of the update that produced it.
C13_TotalOrder ==
    /\ Len(topic.history) = Len(published)
    /\ \A n \in 1..Len(published) : topic.history[n] = published[n].data
    /\ \A q \in Queues : \A i \in 1..Len(sub_queues[q]) :
        LET env == sub_queues[q][i] IN
        /\ env.event.time = published[env.of].time
        /\ env.event.data = published[env.of].data
        /\ env.event.topic_id = topic.topic_id
        /\ \A j \in 1..Len(sub_queues[q]) : i < j => env.of <= sub_queues[q][j].of

\* C13's case: u2 waits for the lock while u1, the second to update, is putting
\* its envelopes; both queues hold the envelope of the first update, q1 that of
\* the second as well.
C13_Witness ==
    /\ topic.owner = "EventSource"
    /\ topic.subscribers = <<"q1", "q2">>
    /\ \E u, v \in Publishers :
        /\ ppc[u].at = "put" /\ ppc[u].n = 2 /\ ppc[u].i = 2
        /\ ppc[v].at = "lock"
    /\ Len(sub_queues["q1"]) = 2 /\ Len(sub_queues["q2"]) = 1
    /\ published[1].data # published[2].data

\* ---------------------------------------------------- event source: claims

\* the topics a pattern selects: the topic of that id if there is one, else the
\* topics whose id it matches as a regular expression, in insertion order
SelectedBy(id) ==
    IF id \in Range(topics) THEN <<id>>
    ELSE SelectSeq(topics, LAMBDA k : re_match(id, k))

RECURSIVE FirstMatches(_, _)
\* the topics selected by the patterns, each once, in the order of first match
FirstMatches(ids, sources) ==
    IF ids = <<>> THEN sources
    ELSE FirstMatches(Tail(ids),
                      sources \o SelectSeq(SelectedBy(Head(ids)),
                                           LAMBDA k : k \notin Range(sources)))

\* C14: for every list of patterns (a pattern repeated, an exact id together
\* with a regular expression that matches it), select returns each matching
\* topic at most once, in the order of first match; a pattern equal to a topic
\* id selects that topic, the other patterns select the topics whose id they
\* match as a regular expression.
C14_SelectDeduplicates ==
    selected.called =>
        /\ \A i, j \in 1..Len(selected.sources) :
              i # j => selected.sources[i] # selected.sources[j]
        /\ selected.sources = FirstMatches(selected.ids, <<>>)

\* -------------------------------------------------- writer: claims (3)

\* the worker's step that calls do_write with the batch it took off the queue
QueueWrite == wpc \in {"write", "final_write"} /\ wpc' # wpc

\* C16: when do_write of a queue batch raises HealthCheckException the writer
\* becomes unhealthy and the whole batch is stored in the backlog (one file,
\* which the same call then lists in all_files); when it raises any other
\* exception the batch is discarded (neither queued again nor stored) and the
\* health is unchanged.
C16_QueueWriteFailure ==
    [][/\ (QueueWrite /\ wrote'.outcome = "HealthCheckException") =>
            /\ ~healthy'
            /\ Persisted(batch)
            /\ queue' = queue /\ written' = written /\ dropped' = dropped
            /\ wpc' \in {"append", "final_append"}
       /\ (wpc \in {"append", "final_append"} /\ wpc' # wpc) =>
            /\ all_files' = Append(all_files, putting["worker"])
            /\ putting["worker"] \in DOMAIN disk
       /\ (QueueWrite /\ wrote'.outcome = "Exception") =>
            /\ healthy' = healthy
            /\ queue' = queue /\ disk' = disk /\ all_files' = all_files
            /\ written' = written
            /\ \A e \in Range(batch) :
                    e \in DOMAIN dropped' /\ dropped'[e] = "discarded"]_vars

\* C16's case: one batch was discarded after another exception while the
\* writer stayed healthy, and the next one has just been stored in the backlog
\* after a HealthCheckException
C16_Witness ==
    /\ wrote = [by |-> "queue", outcome |-> "HealthCheckException"]
    /\ ~healthy
    /\ putting["worker"] \in DOMAIN disk /\ disk[putting["worker"]] # <<>>
    /\ \E e \in DOMAIN dropped : dropped[e] = "discarded"

\* -------------------------------------------------- writer: claims (4)

\* the worker is in Backlog.process
InProcess == wpc \in {"backlog", "backlog_write", "backlog_assign"}

\* the files are numbered in the order they were written: files is in that
\* order and holds the oldest of the files listed in all
OldestOf(files, all) ==
    /\ \A i, j \in 1..Len(files) : i < j => files[i] < files[j]
    /\ \A f \in Range(files), g \in Range(all) \ Range(files) : f < g

\* C17: Backlog.process runs only while the writer is healthy; each batch it
\* replays is made of the oldest files of the backlog, oldest first; a file is
\* deleted only in the step in which do_write of the batch that holds its
\* envelopes has succeeded; a failed do_write marks the writer unhealthy and
\* ends the cycle with the files of the batch and all the others as they were.
C17_BacklogProcess ==
    [][/\ InProcess' => healthy'
       /\ (wpc = "backlog" /\ wpc' = "backlog_write") =>
            /\ OldestOf(batch_files', all_files)
            /\ batch' = Concat(batch_files', disk)
       /\ \A f \in DOMAIN disk \ DOMAIN disk' :
            /\ wpc = "backlog_write" /\ f \in Range(batch_files)
            /\ wrote' = [by |-> "backlog", outcome |-> "ok"]
            /\ written' = written \o batch
            /\ Range(disk[f]) \subseteq Range(batch)
       /\ (wpc = "backlog_write" /\ wrote'.outcome = "Exception") =>
            /\ ~healthy' /\ wpc' = "loop"
            /\ disk' = disk /\ all_files' = all_files]_vars

\* -------------------------------------------------- writer: claims (5)

\* the envelopes are numbered in the order of the write() calls of the feeder
InSubmissionOrder(seq) == \A i, j \in 1..Len(seq) : i < j => seq[i] < seq[j]

\* C18: when do_write raises HealthCheckException for finitely many flushes
\* and the probe succeeds, then, the worker being scheduled and time passing,
\* every envelope fed to the writer is eventually passed to a successful
\* do_write, the envelopes reach do_write in submission order, and the backlog
\* directory ends empty.
C18_Recovery ==
    /\ [](InSubmissionOrder(written))
    /\ \A e \in 1..MaxEnvelopes : [](e \in Accepted => <>(Delivered(e) = 1))
    /\ <>[](DOMAIN disk = {})

\* -------------------------------------------------- writer: claims (6)

\* C19: a record whose conditional template result is empty is, when
\* write_empty is false, never on the queue, in a backlog file or anywhere
\* else in the writer; when write_empty is true it is accepted like any other
\* record: it is in exactly one place of the pipeline.
C19_WriteEmpty ==
    \A e \in empty :
        IF writer_config.write_empty
        THEN e \in Accepted /\ Places(e) = 1
        ELSE /\ e \notin Range(queue) /\ ~InBacklog(e)
             /\ Places(e) = 0

\* C19's case: write_empty is false and of two records of one write() call
\* made while the writer was unhealthy the empty one has been dropped and the
\* other one is in a backlog file
C19_Witness ==
    /\ ~writer_config.write_empty
    /\ \E e \in empty : \E e2 \in Accepted \ empty :
        /\ e2 \in {e - 1, e + 1}
        /\ \E f \in DOMAIN disk : disk[f] = <<e2>>

\* ------------------------------------------------- cron collector: claims

\* the termination signal was set before the first scheduled fire of c
SignalBeforeFirstFire(c) ==
    exit_event /\ (cron[c].fires = 0 \/ cron[c].first_fire_after_signal)

\* C20: a cron collector starts no job once is_set() has shown it the
\* termination signal; when the signal is set before the first scheduled fire
\* no job runs at all; when a wait is woken by the signal the worker runs no
\* further job and ends.
C20_NoJobAfterSignal ==
    /\ [][\A c \in Collectors :
            cron[c].observed => (crpc'[c] # "job" /\ cron'[c].jobs = cron[c].jobs)]_vars
    /\ [](\A c \in Collectors : SignalBeforeFirstFire(c) => cron[c].jobs = 0)
    /\ [](\A c \in Collectors : cron[c].woken_by = "signal" =>
            (crpc[c] \in {"check", "test", "done"}
                /\ cron[c].jobs = cron[c].jobs_at_wake))
    /\ \A c \in Collectors : (cron[c].woken_by = "signal") ~> (crpc[c] = "done")

\* C20's case: one worker ran a job at its first fire, was then woken from
\* its wait by the signal and has ended; the other one, for which the signal
\* came before the first fire, has ended without a job
C20_Witness ==
    /\ exit_event
    /\ \E c, d \in Collectors :
        /\ cron[c].jobs = 1 /\ cron[c].woken_by = "signal" /\ crpc[c] = "done"
        /\ cron[d].fires = 0 /\ cron[d].jobs = 0 /\ crpc[d] = "done"

\* ----------------------------------------------------- supervisor: claims

\* the workers of the configuration
Workers == {c \in Range(all_components) : IsWorker(c)}

\* some worker thread is alive
SomeWorkerAlive ==
    \E c \in Components : \E k \in DOMAIN thread[c] : Alive(thread[c][k])

\* C21: run() starts every writer's worker before any collector's worker,
\* goes on to the joins only when the termination signal is set, joins every
\* worker, and calls destroy() only after all workers have been joined; no
\* destroy() is called while a worker thread is alive.
C21_SupervisorOrder ==
    /\ \A i, j \in 1..Len(run_log.started) :
            (Kind(run_log.started[i]) = "Writer"
                /\ Kind(run_log.started[j]) # "Writer") => i < j
    /\ spc.at \in {"join", "destroy", "done"} =>
            /\ exit_event
            /\ Range(run_log.started) = Workers
    /\ spc.at \in {"destroy", "done"} =>
            /\ Range(run_log.joined) = Workers
            /\ ~SomeWorkerAlive
    /\ run_log.destroyed # <<>> => spc.at \in {"destroy", "done"}
    /\ spc.at = "done" => Range(run_log.destroyed) = Range(all_components)

\* C21's case: a configuration with two writers, two collectors and a
\* provider has been started, joined and destroyed
C21_Witness ==
    /\ spc.at = "done"
    /\ Len(scope.writers) = 2 /\ Len(scope.collectors) = 2
    /\ Len(scope.providers) = 1
    /\ Len(run_log.started) = 4 /\ Len(run_log.joined) = 4
    /\ Len(run_log.destroyed) = 5

RECURSIVE Reverse(_)
\* a sequence, last item first
Reverse(seq) ==
    IF seq = <<>> THEN <<>> ELSE Append(Reverse(Tail(seq)), Head(seq))

\* C22: on shutdown the components are destroyed in the reverse of the order
\* in which they were constructed, and the workers in the reverse of the
\* order in which they were started.
C22_DestroyedInReverse ==
    spc.at = "done" =>
        /\ run_log.destroyed = Reverse(constructed)
        /\ SelectSeq(run_log.destroyed, IsWorker) = Reverse(run_log.started)

\* C23: start() is idempotent: whatever calls are made, a component has at
\* most one worker thread alive, and the queue of an event collector is in
\* the subscribers of a topic at most once.
C23_StartIdempotent ==
    \A c \in Components :
        /\ Cardinality({k \in DOMAIN thread[c] : Alive(thread[c][k])}) <= 1
        /\ Cardinality({i \in DOMAIN subscriptions : subscriptions[i] = c}) <= 1

\* --------------------------------------------------- state object: claims

\* the live timers of a name: the Timer objects created for it that have
\* neither elapsed nor been cancelled
Live(objs, n) ==
    {t \in DOMAIN objs : objs[t].name = n /\ objs[t].status = "pending"}

\* the step is a call of State.update
IsUpdate == cells' # cells

\* C24: State.update applies each entry name: {value: v} of the timer dict:
\* v > 0 and no live timer of the name creates one; v = 0 and a live timer
\* cancels it, and the name has no live timer any more; v > 0 and a live
\* timer leaves it as it is; in every reachable state a name has at most one
\* live timer.
C24_TimerEntries ==
    /\ [](\A n \in TimerNames : Cardinality(Live(timer_objs, n)) <= 1)
    /\ [][(IsUpdate /\ callback_log'.arg.has_timer) =>
            \A i \in DOMAIN callback_log'.arg.timer :
                LET e == callback_log'.arg.timer[i]
                    before == Live(timer_objs, e.name)
                    after == Live(timer_objs', e.name)
                IN  /\ (e.value > 0 /\ before = {}) =>
                        \E t \in DOMAIN timer_objs' \ DOMAIN timer_objs :
                            after = {t} /\ timer_objs'[t].value = e.value
                    /\ (e.value = 0 /\ before # {}) =>
                        /\ after = {}
                        /\ \A t \in before : timer_objs'[t].status = "cancelled"
                    /\ (e.value > 0 /\ before # {}) =>
                        /\ after = before
                        /\ \A t \in before : timer_objs'[t] = timer_objs[t]]_vars

Elapses(t) ==
    /\ t \in DOMAIN timer_objs
    /\ timer_objs[t].status = "pending"
    /\ timer_objs'[t].status \in {"fired", "failed"}

\* C26: when a timer elapses every data callback gets, once, the record
\* {timer: {name: {value: seconds}}} of that timer alone, no timer is made,
\* and the entry of that name and no other leaves State.timers, also for
\* timers made by one update.
C26_TimerElapsed ==
    [][\A t \in DOMAIN timer_objs : Elapses(t) =>
            /\ \A cb \in data_callbacks :
                /\ callback_log'.round[cb].called
                /\ callback_log'.round[cb].data =
                      OnTimerData(<<[name |-> timer_objs[t].name,
                                     value |-> timer_objs[t].value]>>)
            /\ timer_objs'[t].rounds = 1
            /\ Len(timer_objs') = Len(timer_objs)
            /\ \A u \in DOMAIN timer_objs \ {t} : timer_objs'[u] = timer_objs[u]
            /\ timers' = Without(timers, timer_objs[t].name)]_vars

\* ------------------------------------------------ conditional template: claims

\* the block at place id of template d
BlockAt(d, id) ==
    IF Len(id) = 1 THEN d.blocks[id[1]] ELSE d.blocks[id[1]].sub[id[2]]

\* what the blocks did in the call a step makes
NewEvents == eval_log'[Len(eval_log')].events

\* in the call a step makes, every block with a guard and the option flag fires
\* exactly when its guard is true and differs from the value recorded on the
\* block (or none is recorded), and the call records the guard's value on it
OnOffRule(flag) ==
    \A k \in DOMAIN NewEvents :
        LET e == NewEvents[k]
            b == BlockAt(template, e.id)
        IN  (b.if_expr # "none" /\ flag \in b.if_opts) =>
                /\ e.fired <=> /\ e.guard # 0
                               /\ \/ ~b.last_if_eval.set
                                  \/ e.guard # b.last_if_eval.v
                /\ BlockAt(template', e.id).last_if_eval = [set |-> TRUE, v |-> e.guard]

\* C27: a block with a guard and the onoff option ($opts: "onoff") contributes
\* its payload in an evaluation exactly when the guard is true and differs from
\* the guard value recorded at the previous evaluation, or none is recorded, and
\* every evaluation records the guard value on the block; so guard values on,
\* on, off, on give the payload at evaluations 1 and 4 only.
C27_OnOffTransitions ==
    [][eval_log' # eval_log => OnOffRule("onoff")]_vars

\* the blocks of the $def of the template, as an evaluation went through them
TopEvents(entry) == SelectSeq(entry.events, LAMBDA e : Len(e.id) = 1)

TemplatePaths == {<<"e">>, <<"m">>, <<"m", "p">>, <<"m", "q">>}

\* block i contributed a value at path p and no later block that contributed
\* has a value at p, above p or below p
Survives(top, i, p) ==
    /\ top[i].fired
    /\ p \in DOMAIN top[i].contrib
    /\ \A j \in (i + 1)..Len(top) :
          top[j].fired => \A q \in DOMAIN top[j].contrib : ~Conflicts(p, q)

\* C28: an evaluation that returns goes through the blocks of $def in list
\* order; a block whose $if is false and that has no onoff option contributes
\* nothing; a block without $if contributes as if its guard were true; and the
\* output is the deep merge of the contributions: each path has the value of the
\* last block that contributed one, and sub-mappings are merged key by key.
C28_BlocksInOrder ==
    \A k \in DOMAIN eval_log :
        LET entry == eval_log[k]
            top == TopEvents(entry)
            n == Len(template.blocks)
        IN  entry.ok =>
              /\ Len(top) = n
              /\ \A i \in 1..n :
                    LET b == template.blocks[i]
                    IN  /\ top[i].id = <<i>>
                        /\ (b.if_expr # "none" /\ top[i].guard = 0 /\ b.if_opts = {})
                              => (~top[i].fired /\ top[i].contrib = EmptyDict)
                        /\ b.if_expr = "none" => (top[i].fired /\ top[i].guard = 1)
              /\ DOMAIN entry.out =
                    {p \in TemplatePaths : \E i \in 1..n : Survives(top, i, p)}
              /\ \A i \in 1..n : \A p \in TemplatePaths :
                    Survives(top, i, p) => entry.out[p] = top[i].contrib[p]

\* one evaluation merged two blocks that disagree on e and that each have a key
\* of the sub-mapping m, and one evaluation skipped a block whose $if was false
C28_Witness ==
    /\ \E k \in DOMAIN eval_log :
          LET entry == eval_log[k]
              top == TopEvents(entry)
          IN  /\ entry.ok
              /\ Len(top) = 2
              /\ top[1].fired /\ top[2].fired
              /\ <<"e">> \in DOMAIN top[1].contrib \cap DOMAIN top[2].contrib
              /\ top[1].contrib[<<"e">>] # top[2].contrib[<<"e">>]
              /\ entry.out[<<"e">>] = top[2].contrib[<<"e">>]
              /\ {<<"m", "p">>, <<"m", "q">>} \subseteq DOMAIN entry.out
    /\ \E k \in DOMAIN eval_log :
          LET entry == eval_log[k]
              top == TopEvents(entry)
          IN  /\ entry.ok
              /\ \E i \in DOMAIN top :
                    /\ template.blocks[i].if_expr # "none"
                    /\ top[i].guard = 0
                    /\ ~top[i].fired

\* no block of the template, nor of the $def of one of its blocks, has options
NoOptions(d) ==
    \A i \in DOMAIN d.blocks :
        /\ d.blocks[i].if_opts = {}
        /\ \A j \in DOMAIN d.blocks[i].sub : d.blocks[i].sub[j].if_opts = {}

\* C29: evaluating the same template with the same scope gives the same output
\* in any two runs and at any point of a sequence of evaluations: every
\* evaluation of a sequence gives what the first evaluation of the template as
\* written gives with that scope.  Stated for templates without options, whose
\* blocks are not meant to look at the evaluation before.
C29_Deterministic ==
    NoOptions(as_written) =>
        \A k \in DOMAIN eval_log :
            LET entry == eval_log[k]
                first == process_conditional_dict(as_written, entry.scope)
            IN  /\ entry.ok = first.ok
                /\ entry.ok => entry.out = first.data

\* ----------------------------------------------------- HTTP provider: claims

\* a response the loop answers with another attempt
Retried(status) == status >= 400 /\ status # 404

\* C30: a stale update makes at most 3 GET attempts; a 404 response raises at
\* once, with no attempt after it; a response with status >= 400 is followed by
\* the next attempt, and the third such response raises; a response with status
\* below 400 ends the update with result True and its content as the data, on
\* whichever of the three attempts it comes.
C30_HttpRetries ==
    LET st == http_call.statuses
        n == Len(st)
    IN  http_call.stale =>
          /\ http_call.gets <= 3
          /\ n <= http_call.gets
          /\ \A i \in 1..(n - 1) : Retried(st[i])
          /\ (n > 0 /\ st[n] = 404) =>
                /\ http_call.result = "raised"
                /\ hpc = "idle"
                /\ http_call.gets = n
          /\ (n \in 1..2 /\ Retried(st[n])) =>
                \/ hpc \in {"sleep", "get"} /\ http_call.result = None
                \/ hpc = "idle" /\ http_call.gets > n
          /\ (n = 3 /\ Retried(st[n])) => (http_call.result = "raised" /\ hpc = "idle")
          /\ (n > 0 /\ st[n] < 400) =>
                /\ http_call.result = "True"
                /\ hpc = "idle"
                /\ http_data = http_call.content
                /\ http_call.gets = n
          /\ http_call.result = "True" => (n > 0 /\ st[n] < 400)

\* the second update call was stale and its third attempt was the first to
\* succeed
C30_Witness ==
    /\ http_call.stale
    /\ http_call.statuses = <<500, 400, 399>>
    /\ http_call.gets = 3
    /\ http_call.result = "True"
    /\ http_calls = 2
    /\ http_data = "c2"

\* C31: with max_age = 0 no update call is answered from the cache: every call
\* finds the cache stale, issues a request and does not return False, also when
\* it comes at the clock reading of the call before it or after a refresh that
\* failed.
C31_MaxAgeZeroRefreshes ==
    (http_config.max_age = 0 /\ http_calls > 0) =>
        /\ http_call.stale
        /\ http_call.result # "False"

\* ---------------------------------------------------- event collector: claims

\* the envelopes es are those of consecutive updates, each once and in the
\* order of publishing, with the record that was published
Consecutive(es) ==
    \A i \in DOMAIN es :
        /\ es[i].of = es[1].of + i - 1
        /\ es[i].event.data = published[es[i].of].data

\* C32: each of two event collectors subscribed to the same topic processes every
\* update published while it runs exactly once and in publish order: what its
\* worker takes from its queue are consecutive updates, none of those published
\* after it subscribed is left out, and once the worker has nothing left to
\* write (it waits, or it has ended) its writers have received the records of
\* all it took, in that order.
C32_EveryUpdateOnceInOrder ==
    \A c \in EventCollectors :
        (epc[c] # "start" /\ event_writers # {}) =>
            /\ Consecutive(taken[c] \o sub_queues[QueueOf(c)])
            /\ taken[c] # <<>> => taken[c][1].of <= subscribed_at[QueueOf(c)] + 1
            /\ IsPrefix(received[c], taken[c])
            /\ epc[c] \in {"wait", "done", "failed"} => received[c] = taken[c]

\* ------------------------------------------------------- writer: later claims

\* C33: every batch handed to do_write, drained from the queue or replayed from
\* the backlog, holds at most batch_size envelopes, and a batch drained from the
\* queue is the head of the queue, in the order of the queue.
C33_BatchSize ==
    /\ [](wpc \in {"write", "final_write", "backlog_write"} =>
             Len(batch) <= writer_config.batch_size)
    /\ [][wpc' \in {"write", "final_write"} /\ wpc \notin {"write", "final_write"} =>
             batch' \o queue' = queue]_vars

\* C34: the health of the writer is cached.  No probe is made while the writer
\* is healthy; a probe is made only when more than healthcheck_interval has
\* passed since the probe before it; and a writer that a failed do_write marked
\* unhealthy becomes healthy again only when a probe that was started after the
\* failure succeeds.
C34_HealthCached ==
    /\ [](\A i \in DOMAIN probes : ~probes[i].healthy)
    /\ [](\A i \in 2..Len(probes) :
             probes[i].at - probes[i - 1].at > healthcheck_interval)
    /\ [][(~_is_healthy /\ _is_healthy') =>
             \E t \in HealthThreads :
                /\ hpos[t].at = "assign" /\ hpos[t].up
                /\ hpos'[t] = Outside
                /\ marked >= 0 => hpos[t].n > marked]_vars

\* ------------------------------------------- conditional template: later claims

\* the blocks of template d and of the $def of its blocks hold the payloads
\* they were written with
HoldsExpressions(d) ==
    \A i \in DOMAIN d.blocks :
        /\ d.blocks[i].payload = as_written.blocks[i].payload
        /\ \A j \in DOMAIN d.blocks[i].sub :
              d.blocks[i].sub[j].payload = as_written.blocks[i].sub[j].payload

\* C35: every expression of a payload, also one inside a nested mapping, is
\* evaluated under the scope of the current evaluation on every evaluation:
\* what a block contributes has, where the template was written with an
\* expression, the value of the expression in the scope of that evaluation, and
\* the template holds its expressions after the evaluation.
C35_ExpressionsEvaluatedEachTime ==
    /\ HoldsExpressions(template)
    /\ \A k \in DOMAIN eval_log :
          \A n \in DOMAIN eval_log[k].events :
              LET e == eval_log[k].events[n]
                  b == BlockAt(as_written, e.id)
              IN  (e.fired /\ ~b.has_def) =>
                      \A p \in DOMAIN b.payload :
                          b.payload[p].expr =>
                              e.contrib[p] = Lit(eval_log[k].scope.state)

\* the block a failed call names holds the expression that failed: a guard, or
\* an expression in its payload
NamesBlock(d, path) ==
    /\ path.id # <<>>
    /\ path.id[1] \in DOMAIN d.blocks
    /\ Len(path.id) = 2 => /\ d.blocks[path.id[1]].has_def
                           /\ path.id[2] \in DOMAIN d.blocks[path.id[1]].sub
    /\ LET b == BlockAt(d, path.id)
       IN  IF path.part = "$if"
           THEN b.if_expr # "none"
           ELSE ~b.has_def /\ \E p \in DOMAIN b.payload : b.payload[p].expr

\* C36: a call of Writer.write in which the evaluation of a block's $if or of
\* an expression of its payload fails ends with an error that names the block,
\* leaves the guard value recorded on that block as it was before the failing
\* evaluation, and puts nothing on the queue and nothing in the backlog,
\* whatever the records before the failing one gave
C36_FailedWriteAllOrNothing ==
    [][(write_calls' = write_calls + 1 /\ write_call'.status = "error"
            /\ write_call'.path.part \in {"$if", "payload"}) =>
          /\ NamesBlock(write_call'.before, write_call'.path)
          /\ BlockAt(template', write_call'.path.id).last_if_eval
                 = BlockAt(write_call'.before, write_call'.path.id).last_if_eval
          /\ records_queue' = records_queue
          /\ records_backlog' = records_backlog]_vars

\* a call failed at its second record, in the payload of a block, after the
\* first record gave an output
C36_Witness ==
    /\ write_call.status = "error"
    /\ write_call.at = 2
    /\ write_call.path.part = "payload"
    /\ template # as_written

\* ------------------------------------------------- governor: later claims

\* C37: the record an invocation publishes has is_error true exactly when the
\* invocation ran the wrapped call and it raised OperationalError, false exactly
\* when it ran the call and the call returned, and null only when the
\* invocation was skipped
C37_IsErrorMeaning ==
    (perf_topic.history > 0 /\ ~ret.raised) =>
        /\ perf_topic.data.is_error = "True" <=> ret.outcome = "OperationalError"
        /\ perf_topic.data.is_error = "False" <=> ret.outcome = "returned"
        /\ perf_topic.data.is_error = "None" => ret.outcome = "skipped"

\* C39: with the invocations of a PerfKey one after another, the remaining
\* pause of its PerfState is never below 0 and never above the retained counter,
\* and while a pause remains reason_to_wait is 1 or 2; the record of a skipped
\* invocation has is_error null, running_time 0 and records 0
C39_PauseStateConsistent ==
    /\ \A k \in DOMAIN perf_objects :
          LET p == perf_objects[k]
          IN  /\ 0 <= p.cycles_to_wait
              /\ p.cycles_to_wait <= p.cycles_to_wait_int
              /\ p.cycles_to_wait > 0 => p.reason_to_wait \in {1, 2}
    /\ ret.outcome = "skipped" =>
          /\ perf_topic.data.is_error = "None"
          /\ perf_topic.data.running_time = 0
          /\ perf_topic.data.records = 0

\* an invocation was skipped during a pause that a slow call with a row set, and
\* a pause remains
C39_Witness ==
    /\ ret.outcome = "skipped"
    /\ perf_topic.data.reason_to_wait = 2
    /\ \E k \in DOMAIN perf_objects :
          /\ perf_objects[k].cycles_to_wait > 0
          /\ perf_objects[k].cycles_to_wait < perf_objects[k].cycles_to_wait_int

\* ---------------------------------------------------- backlog: later claims

\* C38: however the puts of the collectors interleave with the worker's process
\* and remove, every backlog file on disk is in all_files, once the put that
\* wrote it has reached its append
C38_FilesOnDiskListed ==
    \A f \in DOMAIN disk :
        \/ f \in Range(all_files)
        \/ \E t \in Putters : putting[t] = f

\* ----------------------------------------------------- health: later claims

\* C40: the worker calls do_write only while the health flag of the writer is
\* true: every call of do_write found self._is_healthy true, so an unhealthy
\* writer makes no call until a probe has succeeded (write() holds no call of
\* do_write, and one worker thread makes the calls one after another)
C40_DoWriteOnlyHealthy == FALSE \notin do_write_calls

====
